---- MODULE Spec2Model ----
(***************************************************************************)
(* A state-machine model of the emp3r0r C2 core: the operator long poll    *)
(* (handleOperatorConn), the file-transfer engine (GetFile), the message   *)
(* tunnel and command correlation table (processAgentData), the agent      *)
(* registry, the module runner (ModuleRun, moduleCmd), the ssh shell       *)
(* helper (SSHClient) and the HTTP/2 dispatcher (apiDispatcher).           *)
(*                                                                         *)
(* Every subsystem has its own next-state relation and specification over  *)
(* the shared variables; a subsystem's specification leaves the variables  *)
(* of the others at their initial values.                                  *)
(***************************************************************************)
EXTENDS Integers, Sequences, FiniteSets, TLC

VARIABLES
    \* ---- operator control plane (src/unnamed/part_002)
    OPERATORS,      \* map: session id -> handler whose conn the entry holds
    rev,            \* which revision of handleOperatorConn serves (1: l.98, 2: l.310)
    hpc,            \* per handler: "idle" | "loop" | "exited"
    hsession,       \* per handler: the operator_session header of its request
    timeoutTimer,   \* per handler: [active, left] of the 1-minute time.Timer
    heartbeatTicker,\* per handler: a tick waits in heartbeatTicker.C
    connOpen,       \* per handler: the h2conn of the request is open
    ctxDone,        \* per handler: the request context is cancelled
    timedOut,       \* per handler: the handler left through the timeout path
    sinceHb,        \* per handler: seconds since the operator last sent a heartbeat
    resumedLate,    \* per handler: a heartbeat was sent after Timeout-1 s of silence
    \* ---- agent registry and command correlation table
    Targets,        \* the control records of the registered agents
    CmdResults,     \* map: command id -> result text
    uuidSeq,        \* number of identifiers uuid.NewString() has handed out
    procPanic,      \* processAgentData has hit a run-time panic
    agentSaid,      \* map: command id -> the result text the agent last sent under it
    agentSeq,       \* number of agent objects created so far
    everUnregistered, \* some agent has been unregistered
    \* ---- modules (src/core/lib/cc/mod.go, modshell.go)
    ActiveAgent,    \* the selected target (CurrentTarget), or NilTarget
    CurrentMod,     \* the selected module
    AvailableModuleOptions, \* map: option name -> value
    helpers,        \* modules whose helper goroutine is started and has not run yet
    ccSent,         \* the commands written to agents' message tunnels
    runTick,        \* flips at every call of ModuleRun
    runResult,      \* what the last call of ModuleRun logged, "" if it started the helper
    modPanic,       \* a module helper has hit a run-time panic
    \* ---- ssh shells (src/core/internal/cc/modules/modgetroot.go)
    SSHShellPort,   \* map: shell -> [Agent, ToPort]
    PortFwds,       \* the running port-forward sessions
    pfGo,           \* port-forward goroutines started by SSHClient that have not run yet
    sshSent,        \* the C2CmdSSHD requests written to agents' tunnels
    spc,            \* per SSHClient call: "new" | "start" | "wait" | "pfwait" | "done"
    scall,          \* per SSHClient call: its arguments, locals and result
    agentSshd,      \* the (agent, port) pairs an sshd is bound to on the agents
    \* ---- agent API dispatcher (src/core/internal/cc/modules/modgetroot.go)
    apiReq,         \* the request apiDispatcher is answering, or NoReq
    apiStatus,      \* the status it answers (0: none)
    apiHandler,     \* the handler it passes the request to, "none" if none
    apiSh,          \* the key of the stream handle it passes to handleFTPTransfer, or ""
    streamsH2x,     \* the agent uuid of the request that set the H2Conn holders of
                    \* RShellStream and ProxyStream last
    \* ---- file-transfer engine (src/core/internal/cc/base/ftp/file_transfer.go)
    remoteFile,     \* per agent: content of the file on the agent
    lockFile,       \* per path: <final>.lock exists
    finalFile,      \* per path: content of <final>, or NoFile
    tempFile,       \* per path: content of <final>.downloading, or NoFile
    FTPStreams,     \* map: file_path -> stream handle
    ftpSent,        \* the stat and get commands written to agents' tunnels
    gpc,            \* per GetFile call: "idle" | "stat" | "done"
    gcall,          \* per GetFile call: [path, agent, statId, result, offset]
    xfer,           \* per path: the running transfer stream, or NoXfer
    \* ---- operator API (src/unnamed/part_002)
    scReq,          \* the send-command request being answered, or NoOperation
    scStatus,       \* the status handleSendCommand answers (0: none)
    \* ---- module options (src/core/lib/cc/mod.go)
    optEdited,      \* the modules under which the `set` command changed an option
    \* ---- agent control contexts (live.AgentControl.Ctx)
    ctxCancelled,   \* the tags of the agents whose control context has been cancelled
    \* ---- tunnels (src/core/internal/transport/kcptun.go, ss_tcp.go)
    tpc,            \* per tunnel function and listener loop: "new" | "head" | "accept" |
                    \* "dial" | "wait" | "returned"
    tctx,           \* per tunnel function: the context passed to it is cancelled
    backlog,        \* per listener: connections that wait to be accepted
    muxSession,     \* KCPTunClient's muxes[0].session: "nil" | "open" | "closed"
    \* ---- the lock of the correlation table (logger.go, file_transfer.go)
    CmdResultsMutex,\* the function that holds the mutex of CmdResults, or "free"
    mpc,            \* per function that uses CmdResults: where it is
    wid,            \* the command id processAgentData is storing a result under
    \* ---- the registry lock (src/core/lib/cc/modssh_harvester.go)
    TargetsRLock,   \* the calls of Send2Agent that hold the read lock of TargetsMutex
    xpc,            \* per call of Send2Agent: "idle" | "encode" | "return"
    \* ---- the sessions of the KCP client and their scavenger
    config,         \* the fields of Config the client loop reads
    kpc,            \* where the client loop of KCPTunClient stands
    rr,             \* the uint16 round-robin counter
    accepted,       \* the connections the client has handed to a session
    muxes,          \* slot -> timedSession{session, expiryDate}
    smux,           \* session -> closed, who closed it, and its expiry date
    chScavenger,    \* the channel to the scavenger
    sessionList,    \* the sessions the scavenger tracks
    now,            \* the clock, in seconds
    carried,        \* the last connection: its number, slot and session
    expiredOut,     \* the sessions replaced because they had expired
    \* ---- the labels of the agents on disk
    agentsJsonExists,\* agents.json exists
    agentsJson,     \* the records of agents.json
    label,          \* the tag and the result of the last call of SetAgentLabel
    \* ---- the relay between two connections (ss_tcp.go)
    rpc,            \* per copy of relay: "idle" | "read" | "write" | "done"
    rerr,           \* per copy of relay: the error io.Copy returned
    deadline,       \* per connection: its read deadline is "unset" | "set" | "expired"
    relayRet,       \* what relay returned: "none" before the call, "running" during it
    moved,          \* per copy of relay: the chunks written
    \* ---- the corked connection (ss_tcp.go)
    cork,           \* the corkedConn: corked, err, once, and bufw's buffer and sticky error
    connOut,        \* the bytes the underlying connection has taken
    wrote,          \* the bytes the calls of Write counted in their results
    wret,           \* what the last call of Write returned
    offered,        \* the bytes passed to Write so far
    corkHist,       \* history: an underlying write has failed; bytes flushed from the buffer
    \* ---- the nested read locks of the registry (logger.go, modssh_harvester.go)
    rdepth,         \* per nesting function: the read locks of TargetsMutex its call holds
    rgoal,          \* per nesting function: the read locks its call takes before it unwinds
    wlock,          \* the write lock of TargetsMutex: "free" | "waiting" | "held"
    \* ---- the download of a screenshot (modgetroot.go)
    shot            \* ProcessScreenshot: its position, its argument out, its calls so far, its result

opVars == <<OPERATORS, rev, hpc, hsession, timeoutTimer, heartbeatTicker,
            connOpen, ctxDone, timedOut, sinceHb, resumedLate>>

regVars == <<Targets, CmdResults, uuidSeq, procPanic, agentSaid, agentSeq, everUnregistered>>

modVars == <<ActiveAgent, CurrentMod, AvailableModuleOptions, helpers, ccSent, runTick, runResult,
            modPanic>>

ftpVars == <<remoteFile, lockFile, finalFile, tempFile, FTPStreams, ftpSent,
             gpc, gcall, xfer>>

sshVars == <<SSHShellPort, PortFwds, pfGo, sshSent, spc, scall, agentSshd>>

apiVars == <<apiReq, apiStatus, apiHandler, apiSh, streamsH2x>>

scVars == <<scReq, scStatus>>

tunVars == <<tpc, tctx, backlog, muxSession>>

lockVars == <<CmdResultsMutex, mpc, wid>>

rlockVars == <<TargetsRLock, xpc>>

kcpVars == <<config, kpc, rr, accepted, muxes, smux, chScavenger, sessionList, now, carried, expiredOut>>

lblVars == <<agentsJsonExists, agentsJson, label>>

relayVars == <<rpc, rerr, deadline, relayRet, moved>>

corkVars == <<cork, connOut, wrote, wret, offered, corkHist>>

nestVars == <<rdepth, rgoal, wlock>>

shotVars == <<shot>>

\* the variables of the subsystems below the ssh shells and the dispatcher
extVars == <<scVars, optEdited, ctxCancelled, tunVars, lockVars, rlockVars, kcpVars, lblVars, relayVars, corkVars, nestVars, shotVars>>

vars == <<opVars, regVars, ftpVars, modVars, sshVars, apiVars, extVars>>

\* what each subsystem's actions leave alone
notOp == <<regVars, ftpVars, modVars, sshVars, apiVars, extVars>>
notFtp == <<opVars, modVars, sshVars, apiVars, extVars>>
notReg == <<opVars, ftpVars, modVars, sshVars, apiVars, extVars>>
notMod == <<opVars, ftpVars, sshVars, apiVars, extVars>>
notSsh == <<opVars, ftpVars, apiVars, extVars>>
notApi == <<opVars, regVars, ftpVars, modVars, sshVars, extVars>>
notSc == <<opVars, ftpVars, sshVars, apiVars, optEdited, ctxCancelled, tunVars, lockVars, rlockVars, kcpVars, lblVars, relayVars, corkVars, nestVars, shotVars>>
notUse == <<opVars, ftpVars, sshVars, apiVars, scVars, ctxCancelled, tunVars, lockVars, rlockVars, kcpVars, lblVars, relayVars, corkVars, nestVars, shotVars>>
notTd == <<opVars, apiVars, scVars, optEdited, tunVars, lockVars, rlockVars, kcpVars, lblVars, relayVars, corkVars, nestVars, shotVars>>
notTun == <<opVars, regVars, ftpVars, modVars, sshVars, apiVars, scVars, optEdited, ctxCancelled, lockVars, rlockVars, kcpVars, lblVars, relayVars, corkVars, nestVars, shotVars>>
notLock == <<opVars, ftpVars, modVars, sshVars, apiVars, scVars, optEdited, ctxCancelled, tunVars, rlockVars, kcpVars, lblVars, relayVars, corkVars, nestVars, shotVars>>
notRlock == <<opVars, regVars, ftpVars, modVars, sshVars, apiVars, scVars, optEdited, ctxCancelled, tunVars, lockVars, kcpVars, lblVars, relayVars, corkVars, nestVars, shotVars>>
notKcp == <<opVars, regVars, ftpVars, modVars, sshVars, apiVars, scVars, optEdited, ctxCancelled, tunVars, lockVars, rlockVars, lblVars, relayVars, corkVars, nestVars, shotVars>>
notLbl == <<opVars, ftpVars, modVars, sshVars, apiVars, scVars, optEdited, ctxCancelled, tunVars, lockVars, rlockVars, kcpVars, relayVars, corkVars, nestVars, shotVars>>
notRelay == <<opVars, regVars, ftpVars, modVars, sshVars, apiVars, scVars, optEdited, ctxCancelled, tunVars, lockVars, rlockVars, kcpVars, lblVars, corkVars, nestVars, shotVars>>
notCork == <<opVars, regVars, ftpVars, modVars, sshVars, apiVars, scVars, optEdited, ctxCancelled, tunVars, lockVars, rlockVars, kcpVars, lblVars, relayVars, nestVars, shotVars>>
notNest == <<opVars, regVars, ftpVars, modVars, sshVars, apiVars, scVars, optEdited, ctxCancelled, tunVars, lockVars, rlockVars, kcpVars, lblVars, relayVars, corkVars, shotVars>>
notShot == <<opVars, regVars, ftpVars, modVars, sshVars, apiVars, scVars, optEdited, ctxCancelled, tunVars, lockVars, rlockVars, kcpVars, lblVars, relayVars, corkVars, nestVars>>
regIds == <<agentSeq, everUnregistered>>

(***************************************************************************)
(*                       OPERATOR CONTROL PLANE                            *)
(***************************************************************************)

\* time.NewTimer(1 * time.Minute), in seconds
Timeout == 60
\* the longest operator silence the model follows, in seconds
MaxSilence == 62
\* the operator-conn requests (one handleOperatorConn goroutine each)
Handlers == {"c1", "c2"}
Sessions == {"op1", "op2"}
NoSession == "none"

InitOp ==
    /\ OPERATORS = << >>
    /\ rev \in {1, 2}
    /\ hpc = [h \in Handlers |-> "idle"]
    /\ hsession = [h \in Handlers |-> NoSession]
    /\ timeoutTimer = [h \in Handlers |-> [active |-> FALSE, left |-> 0]]
    /\ heartbeatTicker = [h \in Handlers |-> FALSE]
    /\ connOpen = [h \in Handlers |-> FALSE]
    /\ ctxDone = [h \in Handlers |-> FALSE]
    /\ timedOut = [h \in Handlers |-> FALSE]
    /\ sinceHb = [h \in Handlers |-> 0]
    /\ resumedLate = [h \in Handlers |-> FALSE]

Min(a, b) == IF a < b THEN a ELSE b

\* delete(OPERATORS, operator_session)
MapDelete(m, k) == [x \in (DOMAIN m) \ {k} |-> m[x]]
\* OPERATORS[operator_session] = &operator_t{...} / operator.conn = conn
MapPut(m, k, v) == [x \in (DOMAIN m) \cup {k} |-> IF x = k THEN v ELSE m[x]]

\* handleOperatorConn up to the select loop: accept the conn, store it in
\* OPERATORS, create ticker and timer.
handleOperatorConn(h, s) ==
    /\ hpc[h] = "idle"
    /\ hpc' = [hpc EXCEPT ![h] = "loop"]
    /\ hsession' = [hsession EXCEPT ![h] = s]
    /\ OPERATORS' = MapPut(OPERATORS, s, h)
    /\ timeoutTimer' = [timeoutTimer EXCEPT ![h] = [active |-> TRUE, left |-> Timeout]]
    /\ heartbeatTicker' = [heartbeatTicker EXCEPT ![h] = FALSE]
    /\ connOpen' = [connOpen EXCEPT ![h] = TRUE]
    /\ sinceHb' = [sinceHb EXCEPT ![h] = 0]
    /\ UNCHANGED <<rev, ctxDone, timedOut, resumedLate>>
    /\ UNCHANGED notOp

\* The deferred function of handleOperatorConn and the loop's return.
HandlerExit(h, byTimeout) ==
    /\ hpc' = [hpc EXCEPT ![h] = "exited"]
    /\ OPERATORS' = MapDelete(OPERATORS, hsession[h])
    /\ connOpen' = [connOpen EXCEPT ![h] = FALSE]
    /\ timedOut' = [timedOut EXCEPT ![h] = byTimeout]
    /\ timeoutTimer' = [timeoutTimer EXCEPT ![h] = [active |-> FALSE, left |-> 0]]
    /\ heartbeatTicker' = [heartbeatTicker EXCEPT ![h] = FALSE]
    /\ ctxDone' = [ctxDone EXCEPT ![h] = FALSE]
    \* the silence clock of a session that ended otherwise than by timeout is dropped
    /\ sinceHb' = [sinceHb EXCEPT ![h] = IF byTimeout THEN @ ELSE 0]
    /\ resumedLate' = [resumedLate EXCEPT ![h] = FALSE]

\* A variant of TickBranch that does not re-arm the timer on a tick.
TickBranchNoReset(h) ==
    IF timeoutTimer[h].active
    THEN /\ timeoutTimer' = timeoutTimer
         /\ heartbeatTicker' = [heartbeatTicker EXCEPT ![h] = FALSE]
         /\ UNCHANGED <<OPERATORS, hpc, connOpen, timedOut, ctxDone, sinceHb, resumedLate>>
    ELSE HandlerExit(h, TRUE)

\* case <-heartbeatTicker.C: timeoutTimer.Stop() is true while the timer has
\* not expired, and then the timer is Reset to one minute; it is false once
\* the timer expired, and then the handler closes the conn and returns.
TickBranch(h) ==
    IF timeoutTimer[h].active
    THEN /\ timeoutTimer' = [timeoutTimer EXCEPT ![h] = [active |-> TRUE, left |-> Timeout]]
         /\ heartbeatTicker' = [heartbeatTicker EXCEPT ![h] = FALSE]
         /\ UNCHANGED <<OPERATORS, hpc, connOpen, timedOut, ctxDone, sinceHb, resumedLate>>
    ELSE HandlerExit(h, TRUE)

\* One turn of the select loop taking the ticker case.
HandleTick(h) ==
    /\ hpc[h] = "loop"
    /\ heartbeatTicker[h]
    /\ TickBranch(h)
    /\ UNCHANGED <<rev, hsession>>
    /\ UNCHANGED notOp

\* One turn of the select loop taking case <-ctx.Done(): revision 2 returns
\* (and runs the deferred function), revision 1 only logs and loops on.
HandleCtxDone(h) ==
    /\ hpc[h] = "loop"
    /\ ctxDone[h]
    /\ IF rev = 2
       THEN HandlerExit(h, FALSE)
       ELSE UNCHANGED <<OPERATORS, hpc, connOpen, timedOut, timeoutTimer,
                        heartbeatTicker, ctxDone, sinceHb, resumedLate>>
    /\ UNCHANGED <<rev, hsession>>
    /\ UNCHANGED notOp

\* The request context ends (the operator's connection went away).
CtxCancel(h) ==
    /\ hpc[h] = "loop"
    /\ ~ctxDone[h]
    /\ ctxDone' = [ctxDone EXCEPT ![h] = TRUE]
    /\ UNCHANGED <<OPERATORS, rev, hpc, hsession, timeoutTimer, heartbeatTicker,
                   connOpen, timedOut, sinceHb, resumedLate>>
    /\ UNCHANGED notOp

\* The operator writes a heartbeat frame to its connection. Nothing in
\* handleOperatorConn reads the conn and heartbeatCh has no sender, so the
\* frame changes no handler state (case <-heartbeatCh is never ready).
OperatorHeartbeat(h) ==
    /\ hpc[h] = "loop"
    /\ connOpen[h]
    /\ ~ctxDone[h]
    /\ sinceHb[h] > 0
    /\ sinceHb' = [sinceHb EXCEPT ![h] = 0]
    /\ resumedLate' = [resumedLate EXCEPT ![h] = @ \/ sinceHb[h] = Timeout - 1]
    /\ UNCHANGED <<OPERATORS, rev, hpc, hsession, timeoutTimer, heartbeatTicker,
                   connOpen, ctxDone, timedOut>>
    /\ UNCHANGED notOp

\* One second passes: every running handler's ticker delivers a tick and its
\* timer runs down, expiring at zero. A handler takes its tick before the
\* next second (the goroutine is scheduled within the ticker's period).
TimerAfterSecond(t) ==
    IF ~t.active THEN t
    ELSE IF t.left = 1 THEN [active |-> FALSE, left |-> 0]
    ELSE [active |-> TRUE, left |-> t.left - 1]

Second(maxSilence) ==
    /\ \E h \in Handlers : hpc[h] = "loop"
    /\ \A h \in Handlers : hpc[h] = "loop" => ~heartbeatTicker[h] /\ sinceHb[h] < maxSilence
    /\ heartbeatTicker' = [h \in Handlers |-> hpc[h] = "loop"]
    /\ timeoutTimer' = [h \in Handlers |->
          IF hpc[h] = "loop" THEN TimerAfterSecond(timeoutTimer[h]) ELSE timeoutTimer[h]]
    /\ sinceHb' = [h \in Handlers |->
          IF hpc[h] = "loop" THEN sinceHb[h] + 1 ELSE sinceHb[h]]
    /\ UNCHANGED <<OPERATORS, rev, hpc, hsession, connOpen, ctxDone, timedOut, resumedLate>>
    /\ UNCHANGED notOp

(***************************************************************************)
(*              AGENT REGISTRY AND COMMAND CORRELATION TABLE               *)
(***************************************************************************)

\* agent tags
Tags == {"A", "B"}
\* Control.Conn of an agent whose message tunnel is not up
NilConn == "nil"
\* a nil *Emp3r0rAgent / a missing control record
NilTarget == [Ptr |-> 0, Tag |-> "", Index |-> 0, Conn |-> NilConn, OS |-> "", Label |-> ""]

\* the operating system each agent runs (Emp3r0rAgent.GOOS)
AgentOS == [t \in Tags |-> IF t = "A" THEN "linux" ELSE "windows"]

\* an entry of Targets: the agent object (Ptr is its address; Tag, OS) and its
\* control record (Index, Conn, Label)
Control(ptr, tag, index, conn) ==
    [Ptr |-> ptr, Tag |-> tag, Index |-> index, Conn |-> conn, OS |-> AgentOS[tag],
     Label |-> ""]

\* (a lookup that never finds the tag)
GetTargetFromTagNone(tag) == NilTarget

\* GetTargetFromTag: the registered agent with this tag, nil if none
GetTargetFromTag(tag) ==
    IF \E t \in Targets : t.Tag = tag
    THEN CHOOSE t \in Targets : t.Tag = tag
    ELSE NilTarget

\* Send2Agent's checks: the agent has a control record and a connection
Send2AgentConnected(tag) ==
    \E t \in Targets : t.Tag = tag /\ t.Conn # NilConn

\* CmdResults[cmd_id] = out, under CmdResultsMutex
StoreResult(id, out) == MapPut(CmdResults, id, out)

\* delete(CmdResults, cmd_id), under CmdResultsMutex
DiscardResult(id) == MapDelete(CmdResults, id)

\* uuid.NewString(): a command id no earlier call has drawn. A Go string is
\* a sequence of symbols in this model, so an id is a one-symbol sequence.
UUID(n) == <<ToString(n)>>
NewUUID == UUID(uuidSeq + 1)

\* emp3r0r_def.MagicString, the field separator of a payload, as one symbol
MagicString == "M"

\* index of the first separator in s, 0 if there is none
RECURSIVE IndexFrom(_, _)
IndexFrom(s, i) ==
    IF i > Len(s) THEN 0
    ELSE IF s[i] = MagicString THEN i
    ELSE IndexFrom(s, i + 1)

\* strings.Split(s, MagicString): the fields between separators; a string
\* without separator is one field
RECURSIVE Split(_)
Split(s) ==
    LET i == IndexFrom(s, 1) IN
    IF i = 0 THEN <<s>>
    ELSE <<SubSeq(s, 1, i - 1)>> \o Split(SubSeq(s, i + 1, Len(s)))

\* strings.Join(fields, sep)
RECURSIVE Join(_, _)
Join(fields, sep) ==
    IF fields = << >> THEN << >>
    ELSE IF Len(fields) = 1 THEN fields[1]
    ELSE fields[1] \o sep \o Join(Tail(fields), sep)

\* the agent's result envelope: cmd<MAGIC>command<MAGIC>text<MAGIC>id
Envelope(cmd, text, id) ==
    <<"cmd", MagicString>> \o cmd \o <<MagicString>> \o text \o <<MagicString>> \o id

\* what processAgentData does with the payload of a message from agent tag:
\* nothing for an unknown agent or an op other than cmd; a run-time panic on
\* payloadSplit[1] or payloadSplit[2:len-1] if there are fewer than three
\* fields; else out, joined with spaces, is stored under the last field
\* (a variant that files the result under the command text)
ProcessedByCmd(tag, payload) ==
    LET payloadSplit == Split(payload)
        n == Len(payloadSplit)
    IN IF GetTargetFromTag(tag) = NilTarget \/ payloadSplit[1] # <<"cmd">>
       THEN [stored |-> FALSE, panic |-> FALSE, cmd_id |-> << >>, out |-> << >>]
       ELSE IF n < 3
       THEN [stored |-> FALSE, panic |-> TRUE, cmd_id |-> << >>, out |-> << >>]
       ELSE [stored |-> TRUE, panic |-> FALSE, cmd_id |-> payloadSplit[2],
             out |-> Join(SubSeq(payloadSplit, 3, n - 1), <<" ">>)]

Processed(tag, payload) ==
    LET payloadSplit == Split(payload)
        n == Len(payloadSplit)
    IN IF GetTargetFromTag(tag) = NilTarget \/ payloadSplit[1] # <<"cmd">>
       THEN [stored |-> FALSE, panic |-> FALSE, cmd_id |-> << >>, out |-> << >>]
       ELSE IF n < 3
       THEN [stored |-> FALSE, panic |-> TRUE, cmd_id |-> << >>, out |-> << >>]
       ELSE [stored |-> TRUE, panic |-> FALSE, cmd_id |-> payloadSplit[n],
             out |-> Join(SubSeq(payloadSplit, 3, n - 1), <<" ">>)]

\* processAgentData(data): the handler of one message from an agent
processAgentData(tag, payload) ==
    LET r == Processed(tag, payload) IN
    /\ CmdResults' = IF r.stored THEN StoreResult(r.cmd_id, r.out) ELSE CmdResults
    /\ procPanic' = (procPanic \/ r.panic)

\* the longest result text an agent sends, in symbols
MaxTextLen == 2

TextSymbols == {"h", MagicString}
Texts == UNION {[1..n -> TextSymbols] : n \in 0..MaxTextLen}
Commands == {<<"l", "s">>}
Strangers == {"Z"}
CorrIds == {UUID(1), UUID(2)}
\* payloads that are no result envelope
RawPayloads ==
    {<< >>, <<"h">>, <<"cmd">>, <<"cmd", MagicString, "l", "s">>,
     <<"cmd", MagicString, "l", "s", MagicString, "1">>}

\* An agent answers a command: it sends the result envelope on its message
\* tunnel, and processAgentData handles it.
AgentSends(tag, cmd, text, id) ==
    /\ processAgentData(tag, Envelope(cmd, text, id))
    /\ agentSaid' = MapPut(agentSaid, id, [from |-> tag, text |-> text])
    /\ UNCHANGED <<Targets, uuidSeq, regIds>>

AgentResult(tag, cmd, text, id) ==
    /\ AgentSends(tag, cmd, text, id)
    /\ UNCHANGED notReg

\* An agent sends a payload that is no result envelope.
AgentRaw(tag, payload) ==
    /\ processAgentData(tag, payload)
    /\ UNCHANGED <<Targets, uuidSeq, agentSaid, regIds>>
    /\ UNCHANGED notReg

\* GetTargetFromIndex: the registered agent with this index, nil if none
GetTargetFromIndex(index) ==
    IF \E t \in Targets : t.Index = index
    THEN CHOOSE t \in Targets : t.Index = index
    ELSE NilTarget

\* the most agent objects created in a run
MaxAgentObjs == 4

\* the next unused index
NextIndex == CHOOSE i \in 1..(Cardinality(Targets) + 1) :
                /\ GetTargetFromIndex(i) = NilTarget
                /\ \A j \in 1..(i - 1) : GetTargetFromIndex(j) # NilTarget

\* Register(metadata): a check-in. If the tag is present the entry keeps its
\* index and label; else a new agent object gets the next unused index.
Register(tag) ==
    /\ agentSeq < MaxAgentObjs
    /\ IF GetTargetFromTag(tag) # NilTarget
       THEN UNCHANGED <<Targets, agentSeq>>
       ELSE /\ Targets' = Targets \cup {Control(agentSeq + 1, tag, NextIndex, NilConn)}
            /\ agentSeq' = agentSeq + 1
    /\ UNCHANGED <<CmdResults, uuidSeq, procPanic, agentSaid, everUnregistered>>
    /\ UNCHANGED notReg

\* The agent's message tunnel arrives: the control record gets its connection.
MsgTunnelUp(tag) ==
    /\ \E t \in Targets : t.Tag = tag /\ t.Conn = NilConn
    /\ Targets' = {IF t.Tag = tag THEN [t EXCEPT !.Conn = "conn"] ELSE t : t \in Targets}
    /\ UNCHANGED <<CmdResults, uuidSeq, procPanic, agentSaid, regIds>>
    /\ UNCHANGED notReg

\* Unregister(tag): delete the entry; idempotent.
Unregister(tag) ==
    /\ Targets' = {t \in Targets : t.Tag # tag}
    /\ everUnregistered' = (everUnregistered \/ \E t \in Targets : t.Tag = tag)
    /\ UNCHANGED <<CmdResults, uuidSeq, procPanic, agentSaid, agentSeq>>
    /\ UNCHANGED notReg

\* SetActive(tag): the active agent becomes the agent with this tag, nil if
\* the tag is unknown.
SetActiveAgent(tag) ==
    /\ ActiveAgent' = GetTargetFromTag(tag)
    /\ UNCHANGED <<CurrentMod, AvailableModuleOptions, helpers, ccSent, runTick, runResult,
                   modPanic>>
    /\ UNCHANGED regVars
    /\ UNCHANGED notMod

InitReg ==
    /\ Targets = {}
    /\ CmdResults = << >>
    /\ uuidSeq = 0
    /\ procPanic = FALSE
    /\ agentSaid = << >>
    /\ agentSeq = 0
    /\ everUnregistered = FALSE

IdleMod ==
    /\ ActiveAgent = NilTarget
    /\ CurrentMod = "<blank>"
    /\ AvailableModuleOptions = << >>
    /\ helpers = {}
    /\ ccSent = {}
    /\ runTick = FALSE
    /\ runResult = ""
    /\ modPanic = FALSE

(***************************************************************************)
(*                               MODULES                                   *)
(***************************************************************************)

\* emp3r0r_def.Modules: per module its platform and whether it runs without
\* a target
Modules ==
    [cmd_exec |-> [Platform |-> "Generic", IsLocal |-> TRUE, Exec |-> "built-in"],
     shell    |-> [Platform |-> "Generic", IsLocal |-> FALSE, Exec |-> "built-in"],
     mem_dump |-> [Platform |-> "Windows", IsLocal |-> FALSE, Exec |-> "built-in"]]

\* the modules' default options
ModuleOptions ==
    [cmd_exec |-> [cmd_to_exec |-> <<"l", "s">>],
     shell    |-> [shell |-> <<"bash">>, args |-> << >>, port |-> <<"22222">>],
     mem_dump |-> [pid |-> <<"1">>]]

\* the keys of ModuleHelpers
ModuleHelpers == {"cmd_exec", "shell", "mem_dump"}

\* strings.ToLower on the platform names
ToLower(name) ==
    CASE name = "Generic" -> "generic"
      [] name = "Windows" -> "windows"
      [] name = "Linux" -> "linux"
      [] OTHER -> name

\* Targets[agent]: the entry keyed by this agent object, nil if there is none
TargetsAt(agent) ==
    IF \E t \in Targets : t.Ptr = agent.Ptr
    THEN CHOOSE t \in Targets : t.Ptr = agent.Ptr
    ELSE NilTarget

\* (a variant that leaves the options in place)
KeepOptions(opts) == opts

\* for k := range CurrentModuleOptions { delete(CurrentModuleOptions, k) }
ClearOptions(opts) == << >>

\* the options UpdateOptions sets for a module: those of its config at their
\* OptVal, and an empty download_addr unless the module is built-in
DefaultOptions(modName) ==
    LET conf == ModuleOptions[modName]
        names == DOMAIN conf \cup (IF Modules[modName].Exec # "built-in"
                                   THEN {"download_addr"} ELSE {})
    IN [k \in names |-> IF k \in DOMAIN conf THEN conf[k] ELSE << >>]

\* UpdateOptions(modName) on the option map opts: nothing for a module
\* without helper; else every option of the module is added if not found
\* and set to its default, and the other entries of the map stay
UpdateOptions(opts, modName) ==
    IF modName \notin ModuleHelpers THEN opts
    ELSE [k \in DOMAIN opts \cup DOMAIN DefaultOptions(modName) |->
             IF k \in DOMAIN DefaultOptions(modName)
             THEN DefaultOptions(modName)[k] ELSE opts[k]]

\* setActiveModule: select a module that has a helper, erase the options
\* and load the module's defaults
setActiveModule(modName) ==
    /\ IF modName \in ModuleHelpers
       THEN /\ CurrentMod' = modName
            /\ AvailableModuleOptions' =
                  UpdateOptions(ClearOptions(AvailableModuleOptions), modName)
       ELSE UNCHANGED <<CurrentMod, AvailableModuleOptions>>
    /\ UNCHANGED <<ActiveAgent, helpers, ccSent, runTick, runResult, modPanic>>
    /\ UNCHANGED regVars
    /\ UNCHANGED notMod

\* the option names and values an operator types at the `set` command
OptNames == {"cmd_to_exec", "shell", "port", "pid", "nosuch", ""}
OptVals == {<<"zsh">>, <<"9">>, << >>}

\* setOptValCmd: the `set` command. It shows the usage for an empty option or
\* value; else SetOption writes CurrentModuleOptions[opt].Val, which is a
\* nil dereference for an option the map does not hold.
setOptValCmd(opt, val) ==
    /\ IF opt = "" \/ val = << >>
       THEN UNCHANGED <<AvailableModuleOptions, modPanic, optEdited>>
       ELSE IF opt \notin DOMAIN AvailableModuleOptions
       THEN /\ modPanic' = TRUE
            /\ UNCHANGED <<AvailableModuleOptions, optEdited>>
       ELSE /\ AvailableModuleOptions' = [AvailableModuleOptions EXCEPT ![opt] = val]
            /\ optEdited' = optEdited \cup {CurrentMod}
            /\ UNCHANGED modPanic
    /\ UNCHANGED <<ActiveAgent, CurrentMod, helpers, ccSent, runTick, runResult>>
    /\ UNCHANGED regVars
    /\ UNCHANGED notUse

\* the checks of ModuleRun, without the check that the target is registered
ModuleRunErrorUnchecked ==
    IF CurrentMod \notin DOMAIN Modules THEN "module not found"
    ELSE LET modObj == Modules[CurrentMod]
             mod_os == ToLower(modObj.Platform)
         IN IF ActiveAgent # NilTarget /\ mod_os # "generic" /\ ActiveAgent.OS # mod_os
            THEN "does not support"
            ELSE IF ActiveAgent = NilTarget /\ ~modObj.IsLocal
            THEN "Target not specified"
            ELSE IF CurrentMod \notin ModuleHelpers
            THEN "Module not found"
            ELSE ""

\* the checks of ModuleRun: the error it logs, "" if it starts the helper
ModuleRunError ==
    IF CurrentMod \notin DOMAIN Modules THEN "module not found"
    ELSE LET modObj == Modules[CurrentMod]
             mod_os == ToLower(modObj.Platform)
         IN IF ActiveAgent # NilTarget /\ mod_os # "generic" /\ ActiveAgent.OS # mod_os
            THEN "does not support"
            ELSE IF ActiveAgent = NilTarget /\ ~modObj.IsLocal
            THEN "Target not specified"
            ELSE IF TargetsAt(ActiveAgent) = NilTarget /\ ActiveAgent # NilTarget
            THEN "does not exist"
            ELSE IF CurrentMod \notin ModuleHelpers
            THEN "Module not found"
            ELSE ""

\* ModuleRun: run the current module. It starts the module's helper in a
\* goroutine if the checks pass (at most one pending goroutine per module
\* is followed).
ModuleRun ==
    /\ ModuleRunError = "" => CurrentMod \notin helpers
    /\ runTick' = ~runTick
    /\ runResult' = ModuleRunError
    /\ helpers' = IF ModuleRunError = "" THEN helpers \cup {CurrentMod} ELSE helpers
    /\ UNCHANGED <<ActiveAgent, CurrentMod, AvailableModuleOptions, ccSent, modPanic>>
    /\ UNCHANGED regVars
    /\ UNCHANGED notMod

\* the most commands sent to agents in a run
MaxCmds == 2

\* execOnTarget within moduleCmd: skip an agent without connection or a
\* missing option, else SendCmd(cmdOpt.Val, "", target), which draws a fresh
\* id and hands the command to Send2Agent. st is the loop's state so far;
\* ioFail holds the agents whose tunnel write fails.
execOnTarget(t, st, ioFail, bcast) ==
    IF t.Conn = NilConn \/ "cmd_to_exec" \notin DOMAIN AvailableModuleOptions
    THEN st
    ELSE [sent |-> st.sent \cup {[to |-> t.Tag, cmd |-> AvailableModuleOptions["cmd_to_exec"],
                                  id |-> UUID(st.seq + 1), ok |-> t.Tag \notin ioFail,
                                  bcast |-> bcast]},
          seq |-> st.seq + 1]

\* for per_target := range Targets { execOnTarget(per_target) }
RECURSIVE ExecOnAll(_, _, _)
ExecOnAll(order, st, ioFail) ==
    IF order = << >> THEN st
    ELSE ExecOnAll(Tail(order), execOnTarget(Head(order), st, ioFail, TRUE), ioFail)

\* the orders in which a range over Targets may visit the entries
RangeOrders ==
    {o \in [1..Cardinality(Targets) -> Targets] :
        \A i \in DOMAIN o, j \in DOMAIN o : o[i] = o[j] => i = j}

\* moduleCmd, the helper of cmd_exec: send the command to the active agent,
\* or to every agent if none is active
moduleCmd(order, ioFail) ==
    /\ "cmd_exec" \in helpers
    /\ helpers' = helpers \ {"cmd_exec"}
    /\ order \in RangeOrders
    /\ LET st0 == [sent |-> ccSent, seq |-> uuidSeq]
           st == IF ActiveAgent = NilTarget
                 THEN ExecOnAll(order, st0, ioFail)
                 ELSE IF TargetsAt(ActiveAgent) = NilTarget
                 THEN st0
                 ELSE execOnTarget(TargetsAt(ActiveAgent), st0, ioFail, FALSE)
       IN /\ st.seq <= MaxCmds
          /\ ccSent' = st.sent
          /\ uuidSeq' = st.seq
    /\ modPanic' = (modPanic \/ (/\ ActiveAgent = NilTarget
                                 /\ "cmd_to_exec" \notin DOMAIN AvailableModuleOptions))
    /\ UNCHANGED <<ActiveAgent, CurrentMod, AvailableModuleOptions, runTick, runResult>>
    /\ UNCHANGED <<Targets, CmdResults, procPanic, agentSaid, regIds>>
    /\ UNCHANGED notMod

\* the result texts of agent tag
ReplyTexts(tag) == {<<tag>>, <<tag, MagicString, "h">>}

\* The agent answers a command it was sent.
AgentAnswers(m, text) ==
    /\ m \in ccSent
    /\ m.ok
    /\ m.id \notin DOMAIN agentSaid
    /\ AgentResult(m.to, m.cmd, text, m.id)

IdleReg ==
    /\ Targets = {Control(1, "A", 1, "conn"), Control(2, "B", 2, "conn")}
    /\ agentSeq = 2
    /\ everUnregistered = FALSE
    /\ CmdResults = << >>
    /\ uuidSeq = 0
    /\ procPanic = FALSE
    /\ agentSaid = << >>

(***************************************************************************)
(*                         FILE-TRANSFER ENGINE                            *)
(***************************************************************************)

\* the largest remote file, in bytes
MaxFileSize == 2

Paths == {"/etc/hostname"}
Calls == {"g1", "g2"}
Bytes == {0, 1}
Contents == UNION {[1..n -> Bytes] : n \in 1..MaxFileSize}

NoFile == [exists |-> FALSE, data |-> << >>]
File(data) == [exists |-> TRUE, data |-> data]

\* crypto.SHA256SumFile: a collision-free digest of the content
SHA256Sum(data) == [sha256 |-> data]
NoSum == [sha256 |-> << >>]

\* fmt.Sprintf("%s-%s", util.RandMD5String(), fileinfo.Checksum): every call
\* draws its own nonce
Token(c, sum) == [nonce |-> c, sum |-> sum]
NoToken == [nonce |-> "", sum |-> NoSum]

\* the agent's answer to C2CmdStat: JSON {Size, Checksum}, or a text that is
\* no JSON (the agent could not stat the file)
FileStat(data) == [json |-> TRUE, Size |-> Len(data), Checksum |-> SHA256Sum(data)]
StatError == [json |-> FALSE, Size |-> 0, Checksum |-> NoSum]

NoCall == [path |-> "", agent |-> "", statId |-> << >>, result |-> "", offset |-> 0,
           token |-> NoToken, x |-> "none", during |-> {}]
NoXfer == [active |-> FALSE, call |-> "", agent |-> "", pos |-> 0]

\* util.FileAllocate(save_to_file, filesize): a file of filesize zero bytes
FileAllocate(size) == File([i \in 1..size |-> 0])

\* the offset GetFile asks for: the size of the temp file if there is one
\* (a variant that always starts over)
ResumeOffsetZero(p) == 0

\* var offset int64 = 0; if util.IsExist(tempname) { offset = util.FileSize(tempname) }
ResumeOffset(p) == IF tempFile[p].exists THEN Len(tempFile[p].data) ELSE 0

IdleFtp ==
    /\ remoteFile = [a \in Tags |-> <<1>>]
    /\ lockFile = [p \in Paths |-> FALSE]
    /\ finalFile = [p \in Paths |-> NoFile]
    /\ tempFile = [p \in Paths |-> NoFile]
    /\ FTPStreams = << >>
    /\ ftpSent = {}
    /\ gpc = [c \in Calls |-> "idle"]
    /\ gcall = [c \in Calls |-> NoCall]
    /\ xfer = [p \in Paths |-> NoXfer]

InitFtp ==
    /\ \E data \in Contents : remoteFile = [a \in Tags |-> data]
    /\ lockFile = [p \in Paths |-> FALSE]
    /\ finalFile = [p \in Paths |-> NoFile]
    /\ tempFile = [p \in Paths |-> NoFile]
    /\ FTPStreams = << >>
    /\ ftpSent = {}
    /\ gpc = [c \in Calls |-> "idle"]
    /\ gcall = [c \in Calls |-> NoCall]
    /\ xfer = [p \in Paths |-> NoXfer]

\* (a test that never finds the lock file)
LockExistsNever(p) == FALSE

\* util.IsExist(lock)
LockExists(p) == lockFile[p]

GetFileReturn(c, call, result) ==
    /\ gpc' = [gpc EXCEPT ![c] = "done"]
    /\ gcall' = [gcall EXCEPT ![c] = [call EXCEPT !.result = result]]

\* GetFile up to the wait in StatFile: compute the paths, refuse if the lock
\* file exists, else send C2CmdStat under a fresh command id. sendOk: the
\* write to the agent's tunnel succeeds.
GetFileStart(c, p, a, sendOk) ==
    /\ gpc[c] = "idle"
    /\ LET call == [NoCall EXCEPT !.path = p, !.agent = a,
                                  !.during = {d \in Calls : gpc[d] = "stat"}] IN
       IF LockExists(p)
       THEN /\ GetFileReturn(c, call, "already being downloaded")
            /\ UNCHANGED <<ftpSent, uuidSeq>>
       ELSE LET id == NewUUID IN
            /\ uuidSeq' = uuidSeq + 1
            /\ IF Send2AgentConnected(a) /\ sendOk
               THEN /\ ftpSent' = ftpSent \cup
                          {[to |-> a, op |-> "stat", path |-> p, offset |-> 0,
                            token |-> NoToken, id |-> id]}
                    /\ gpc' = [gpc EXCEPT ![c] = "stat"]
                    /\ gcall' = [gcall EXCEPT ![c] = [call EXCEPT !.statId = id]]
               ELSE /\ GetFileReturn(c, call, "failed to stat")
                    /\ UNCHANGED ftpSent
    /\ UNCHANGED <<Targets, CmdResults, procPanic, agentSaid, regIds, remoteFile, lockFile,
                   finalFile, tempFile, FTPStreams, xfer>>
    /\ UNCHANGED notFtp

\* GetFile from StatFile's result on: stop if the final file is there with
\* the agent's checksum, else allocate the final file, read the offset from
\* the temp file, register the stream handle and send the get command.
GetFileAfterStat(c, allocOk, sendOk) ==
    /\ gpc[c] = "stat"
    /\ gcall[c].statId \in DOMAIN CmdResults
    /\ LET call == gcall[c]
           p == call.path
           fi == CmdResults[call.statId]
           offset == ResumeOffset(p)
           sh == [Token |-> Token(c, fi.Checksum), agent |-> call.agent]
           id == NewUUID
       IN
       /\ CmdResults' = DiscardResult(call.statId)
       /\ IF ~fi.json
          THEN /\ GetFileReturn(c, call, "failed to stat")
               /\ UNCHANGED <<finalFile, FTPStreams, ftpSent, uuidSeq>>
          ELSE IF finalFile[p].exists /\ SHA256Sum(finalFile[p].data) = fi.Checksum
          THEN /\ GetFileReturn(c, call, "already exists")
               /\ UNCHANGED <<finalFile, FTPStreams, ftpSent, uuidSeq>>
          ELSE IF ~allocOk
          THEN /\ GetFileReturn(c, call, "allocate file")
               /\ UNCHANGED <<finalFile, FTPStreams, ftpSent, uuidSeq>>
          ELSE /\ finalFile' = [finalFile EXCEPT ![p] = FileAllocate(fi.Size)]
               /\ FTPStreams' = MapPut(FTPStreams, p, sh)
               /\ uuidSeq' = uuidSeq + 1
               /\ IF Send2AgentConnected(call.agent) /\ sendOk
                  THEN /\ ftpSent' = ftpSent \cup
                             {[to |-> call.agent, op |-> "get", path |-> p,
                               offset |-> offset, token |-> sh.Token, id |-> id]}
                       /\ GetFileReturn(c, [call EXCEPT !.offset = offset,
                                                        !.token = sh.Token,
                                                        !.x = "requested"], "transfer")
                  ELSE /\ GetFileReturn(c, call, "send command")
                       /\ UNCHANGED ftpSent
    /\ UNCHANGED <<Targets, procPanic, agentSaid, regIds, remoteFile, lockFile, tempFile, xfer>>
    /\ UNCHANGED notFtp

\* The agent answers the stat command of call c; processAgentData stores the
\* answer under the command's id.
AgentStatReply(c, found) ==
    /\ gpc[c] = "stat"
    /\ gcall[c].statId \notin DOMAIN CmdResults
    /\ CmdResults' = StoreResult(gcall[c].statId,
                        IF found THEN FileStat(remoteFile[gcall[c].agent]) ELSE StatError)
    /\ UNCHANGED <<Targets, uuidSeq, procPanic, agentSaid, regIds, ftpVars>>
    /\ UNCHANGED notFtp

\* The agent opens the file-transfer stream for call c's get command; the
\* dispatcher hands it to the stream handle with the same token. The writer
\* takes the lock, or refuses the stream if the lock is taken.
FTPTransferBegin(c) ==
    /\ gpc[c] = "done"
    /\ gcall[c].x = "requested"
    /\ LET p == gcall[c].path IN
       IF p \in DOMAIN FTPStreams /\ FTPStreams[p].Token = gcall[c].token /\ ~lockFile[p]
       THEN /\ lockFile' = [lockFile EXCEPT ![p] = TRUE]
            /\ xfer' = [xfer EXCEPT ![p] = [active |-> TRUE, call |-> c,
                                            agent |-> gcall[c].agent,
                                            pos |-> gcall[c].offset]]
            /\ tempFile' = [tempFile EXCEPT ![p] = IF @.exists THEN @ ELSE File(<< >>)]
            /\ gcall' = [gcall EXCEPT ![c].x = "streaming"]
       ELSE /\ gcall' = [gcall EXCEPT ![c].x = "refused"]
            /\ UNCHANGED <<lockFile, xfer, tempFile>>
    /\ UNCHANGED <<regVars, remoteFile, finalFile, FTPStreams, ftpSent, gpc>>
    /\ UNCHANGED notFtp

\* The agent streams the next byte of its file, from the requested offset
\* on; the writer puts it at that offset of the temp file.
FTPTransferByte(p) ==
    /\ xfer[p].active
    /\ xfer[p].pos < Len(remoteFile[xfer[p].agent])
    /\ LET b == remoteFile[xfer[p].agent][xfer[p].pos + 1]
           have == tempFile[p].data
           keep == SubSeq(have, 1, Min(xfer[p].pos, Len(have)))
       IN tempFile' = [tempFile EXCEPT ![p] = File(Append(keep, b))]
    /\ xfer' = [xfer EXCEPT ![p].pos = @ + 1]
    /\ UNCHANGED <<regVars, remoteFile, lockFile, finalFile, FTPStreams, ftpSent, gpc, gcall>>
    /\ UNCHANGED notFtp

\* End of stream with the expected checksum: the temp file becomes the final
\* file and the lock is removed.
FTPTransferDone(p) ==
    /\ xfer[p].active
    /\ xfer[p].pos >= Len(remoteFile[xfer[p].agent])
    /\ SHA256Sum(tempFile[p].data) = gcall[xfer[p].call].token.sum
    /\ finalFile' = [finalFile EXCEPT ![p] = tempFile[p]]
    /\ tempFile' = [tempFile EXCEPT ![p] = NoFile]
    /\ lockFile' = [lockFile EXCEPT ![p] = FALSE]
    /\ xfer' = [xfer EXCEPT ![p] = NoXfer]
    /\ gcall' = [gcall EXCEPT ![xfer[p].call].x = "complete"]
    /\ UNCHANGED <<regVars, remoteFile, FTPStreams, ftpSent, gpc>>
    /\ UNCHANGED notFtp

\* An I/O error ends the stream: the temp file stays, the lock is removed.
FTPTransferAbort(p) ==
    /\ xfer[p].active
    /\ lockFile' = [lockFile EXCEPT ![p] = FALSE]
    /\ xfer' = [xfer EXCEPT ![p] = NoXfer]
    /\ gcall' = [gcall EXCEPT ![xfer[p].call].x = "aborted"]
    /\ UNCHANGED <<regVars, remoteFile, finalFile, tempFile, FTPStreams, ftpSent, gpc>>
    /\ UNCHANGED notFtp

\* End of stream with another checksum than the one the token carries: the
\* writer keeps the temp file, removes the lock and signals ChecksumFailed.
FTPTransferMismatch(p) ==
    /\ xfer[p].active
    /\ xfer[p].pos >= Len(remoteFile[xfer[p].agent])
    /\ SHA256Sum(tempFile[p].data) # gcall[xfer[p].call].token.sum
    /\ lockFile' = [lockFile EXCEPT ![p] = FALSE]
    /\ xfer' = [xfer EXCEPT ![p] = NoXfer]
    /\ gcall' = [gcall EXCEPT ![xfer[p].call].x = "ChecksumFailed"]
    /\ UNCHANGED <<regVars, remoteFile, finalFile, tempFile, FTPStreams, ftpSent, gpc>>
    /\ UNCHANGED notFtp

\* The file on the agent is replaced by one with another content, between
\* the agent's answer to the stat command and its transfer stream.
RemoteFileChanges(a, data) ==
    /\ \E c \in Calls : gcall[c].agent = a /\ gcall[c].x = "requested"
    /\ data # remoteFile[a]
    /\ remoteFile' = [remoteFile EXCEPT ![a] = data]
    /\ UNCHANGED <<regVars, lockFile, finalFile, tempFile, FTPStreams, ftpSent, gpc, gcall,
                   xfer>>
    /\ UNCHANGED notFtp

(***************************************************************************)
(*                              SSH SHELLS                                 *)
(***************************************************************************)

\* live.RuntimeConfig.SSHDShellPort, the reserved port
SSHDShellPort == "22222"

Shells == {"bash", "sftp"}
\* the ports an operator names and util.RandInt(2048, 65535) draws
Ports == {SSHDShellPort, "2222"}
LPorts == {"4444", "5555"}
SshCalls == {"s1", "s2"}

NoSshCall == [agent |-> NilTarget, shell |-> "", origPort |-> "", port |-> "", lport |-> "",
              cmd_id |-> << >>, result |-> "", after |-> {}, pfMade |-> FALSE]

\* live.SetOption(opt, val): set the option if the module has it
SetOption(opt, val) ==
    IF opt \in DOMAIN AvailableModuleOptions
    THEN [AvailableModuleOptions EXCEPT ![opt] = val]
    ELSE AvailableModuleOptions

\* (a test every answer passes)
ContainsSuccessAlways(res) == TRUE

\* strings.Contains(res, "success")
ContainsSuccess(res) == \E i \in DOMAIN res : res[i] = "success"

\* strings.Contains(res, "listen tcp 127.0.0.1:<port>: bind: address already in use")
ContainsInUse(res, port) ==
    \E i \in DOMAIN res :
        /\ i + 2 <= Len(res)
        /\ res[i] = "listen tcp 127.0.0.1:"
        /\ res[i + 1] = port
        /\ res[i + 2] = ": bind: address already in use"

\* the open mapping SSHClient finds for shell and target
\* (a lookup that finds none)
MappingOfNone(shell, target) == [found |-> FALSE, ToPort |-> ""]

\* for s, mapping := range SSHShellPort { if s == shell && mapping.Agent == target {...} }
MappingOf(shell, target) ==
    IF shell \in DOMAIN SSHShellPort /\ SSHShellPort[shell].Agent.Ptr = target.Ptr
    THEN [found |-> TRUE, ToPort |-> SSHShellPort[shell].ToPort]
    ELSE [found |-> FALSE, ToPort |-> ""]

\* context.Background(), the parent of a context that no agent's control
\* context cancels
Background == ""

\* SSHClient returns: the deferred delete of the command's result runs
SSHClientReturn(c, call, result) ==
    /\ spc' = [spc EXCEPT ![c] = "done"]
    /\ scall' = [scall EXCEPT ![c] = [call EXCEPT !.result = result]]
    /\ CmdResults' = IF call.cmd_id # << >> THEN DiscardResult(call.cmd_id) ELSE CmdResults

\* for s, ssh_mapping := range SSHShellPort { if s != shell && ssh_mapping.ToPort == port {...} }
OtherShellOn(shell, port) ==
    \E s \in DOMAIN SSHShellPort : s # shell /\ SSHShellPort[s].ToPort = port

\* SSHClient from its entry to the sshd command: pick the port, look for an
\* open mapping and a running port forward; on a port that carries another
\* shell call itself again with a new port; else send C2CmdSSHD.
SSHClientBody(c, call, new_port, lport, sshInstalled, sendOk) ==
    LET target == ActiveAgent
        shell == call.shell
        mapping == MappingOf(shell, target)
        is_new_port_needed ==
            (call.port = SSHDShellPort /\ shell # "sftp") /\ ~mapping.found
        port == IF is_new_port_needed THEN new_port
                ELSE IF mapping.found THEN mapping.ToPort ELSE call.port
        options1 == IF is_new_port_needed /\ shell # "sftp"
                    THEN SetOption("port", <<new_port>>) ELSE AvailableModuleOptions
        fwds == {p \in PortFwds : p.Agent.Ptr = target.Ptr /\ p.To = port}
        call1 == [call EXCEPT !.agent = target, !.port = port, !.lport = lport]
        id == NewUUID
    IN
    IF target = NilTarget
    THEN /\ SSHClientReturn(c, call, "no active agent")
         /\ UNCHANGED <<AvailableModuleOptions, sshSent, uuidSeq>>
    ELSE IF ~sshInstalled
    THEN /\ SSHClientReturn(c, [call EXCEPT !.agent = target], "ssh must be installed")
         /\ UNCHANGED <<AvailableModuleOptions, sshSent, uuidSeq>>
    ELSE IF fwds # {}
    THEN IF OtherShellOn(shell, port)
         THEN \E again \in Ports :
                 /\ AvailableModuleOptions' =
                       [f \in DOMAIN options1 |->
                           IF f = "port" THEN <<again>> ELSE options1[f]]
                 /\ spc' = [spc EXCEPT ![c] = "start"]
                 /\ scall' = [scall EXCEPT ![c] = [call EXCEPT !.agent = target,
                                                               !.port = again]]
                 /\ UNCHANGED <<CmdResults, sshSent, uuidSeq>>
         ELSE \E p \in fwds :
                 /\ AvailableModuleOptions' = options1
                 /\ spc' = [spc EXCEPT ![c] = "pfwait"]
                 /\ scall' = [scall EXCEPT ![c] = [call1 EXCEPT !.lport = p.Lport]]
                 /\ UNCHANGED <<CmdResults, sshSent, uuidSeq>>
    ELSE /\ AvailableModuleOptions' = options1
         /\ uuidSeq' = uuidSeq + 1
         /\ IF sendOk /\ Send2AgentConnected(target.Tag)
            THEN /\ sshSent' = sshSent \cup
                       {[to |-> target.Tag, shell |-> shell, port |-> port, id |-> id,
                         call |-> c]}
                 /\ spc' = [spc EXCEPT ![c] = "wait"]
                 /\ scall' = [scall EXCEPT ![c] = [call1 EXCEPT !.cmd_id = id]]
                 /\ UNCHANGED CmdResults
            ELSE /\ SSHClientReturn(c, call1, "send failed")
                 /\ UNCHANGED sshSent

\* the frame of the steps of SSHClient up to the sshd command
SSHClientFrame ==
    /\ UNCHANGED <<SSHShellPort, PortFwds, pfGo, agentSshd>>
    /\ UNCHANGED <<Targets, procPanic, agentSaid, regIds>>
    /\ UNCHANGED <<ActiveAgent, CurrentMod, helpers, ccSent, runTick, runResult, modPanic>>
    /\ UNCHANGED notSsh

\* SSHClient(shell, args, port, false) is called.
SSHClient(c, shell, port, new_port, lport, sshInstalled, sendOk) ==
    /\ spc[c] = "new"
    /\ SSHClientBody(c, [NoSshCall EXCEPT !.shell = shell, !.origPort = port, !.port = port,
                                          !.after = {d \in SshCalls : spc[d] = "done"}],
                     new_port, lport, sshInstalled, sendOk)
    /\ SSHClientFrame

\* SSHClient has called itself with a new port.
SSHClientAgain(c, new_port, lport, sshInstalled, sendOk) ==
    /\ spc[c] = "start"
    /\ SSHClientBody(c, scall[c], new_port, lport, sshInstalled, sendOk)
    /\ SSHClientFrame

\* The agent handles an sshd command: it answers success and binds the port,
\* or answers that the port is in use, or that sshd failed to start.
AgentSshdReply(m, works) ==
    /\ m \in sshSent
    /\ m.id \notin DOMAIN agentSaid
    /\ LET bound == [agent |-> m.to, port |-> m.port]
           text == IF bound \in agentSshd
                   THEN <<"listen tcp 127.0.0.1:", m.port, ": bind: address already in use">>
                   ELSE IF works THEN <<"success">> ELSE <<"sshd failed">>
       IN /\ AgentSends(m.to, <<"!sshd">>, text, m.id)
          /\ agentSshd' = IF works THEN agentSshd \cup {bound} ELSE agentSshd
    /\ UNCHANGED <<SSHShellPort, PortFwds, pfGo, sshSent, spc, scall>>
    /\ UNCHANGED modVars
    /\ UNCHANGED notSsh

\* SSHClient's wait for the agent's answer ends with an answer: on success,
\* or on a port that is already bound, it creates the port-forward session
\* and starts the goroutine that records the mapping and runs the session.
SSHClientResponse(c) ==
    /\ spc[c] = "wait"
    /\ scall[c].cmd_id \in DOMAIN CmdResults
    /\ LET call == scall[c]
           res == CmdResults[call.cmd_id]
       IN IF ContainsSuccess(res) \/ ContainsInUse(res, call.port)
          THEN /\ pfGo' = pfGo \cup {[call |-> c, shell |-> call.shell, agent |-> call.agent,
                                      port |-> call.port, lport |-> call.lport]}
               /\ spc' = [spc EXCEPT ![c] = "pfwait"]
               /\ scall' = [scall EXCEPT ![c].pfMade = TRUE]
               /\ UNCHANGED CmdResults
          ELSE /\ SSHClientReturn(c, call, "start sshd failed")
               /\ UNCHANGED pfGo
    /\ UNCHANGED <<SSHShellPort, PortFwds, sshSent, agentSshd>>
    /\ UNCHANGED <<Targets, uuidSeq, procPanic, agentSaid, regIds>>
    /\ UNCHANGED modVars
    /\ UNCHANGED notSsh

\* SSHClient's wait for the agent's answer ends after 100 polls without one.
SSHClientNoResponse(c) ==
    /\ spc[c] = "wait"
    /\ scall[c].cmd_id \notin DOMAIN CmdResults
    /\ SSHClientReturn(c, scall[c], "didn't get response")
    /\ UNCHANGED <<SSHShellPort, PortFwds, pfGo, sshSent, agentSshd>>
    /\ UNCHANGED <<Targets, uuidSeq, procPanic, agentSaid, regIds>>
    /\ UNCHANGED modVars
    /\ UNCHANGED notSsh

\* (a listener that binds whatever port it is given)
ListenAnyway(lport) == TRUE

\* the session's listener on 127.0.0.1:lport: the bind succeeds only on a
\* port no running session listens on
Listen(lport) == ~(\E p \in PortFwds : p.Lport = lport)

\* The goroutine SSHClient started: it records the mapping of the shell and
\* runs the port-forward session, which enters PortFwds unless it fails to
\* listen on its local port.
PortFwdGoroutine(g, listenOk) ==
    /\ g \in pfGo
    /\ pfGo' = pfGo \ {g}
    /\ SSHShellPort' = MapPut(SSHShellPort, g.shell, [Agent |-> g.agent, ToPort |-> g.port])
    /\ PortFwds' = IF listenOk /\ Listen(g.lport)
                   THEN PortFwds \cup {[Agent |-> g.agent, To |-> g.port, Lport |-> g.lport,
                                        call |-> g.call, CtxParent |-> Background]}
                   ELSE PortFwds
    /\ UNCHANGED <<sshSent, spc, scall, agentSshd>>
    /\ UNCHANGED regVars
    /\ UNCHANGED modVars
    /\ UNCHANGED notSsh

\* SSHClient's wait for the port mapping ends: the session is in PortFwds and
\* ssh is started on its local port.
SSHClientPortReady(c) ==
    /\ spc[c] = "pfwait"
    /\ \E p \in PortFwds : p.Agent.Tag = scall[c].agent.Tag /\ p.To = scall[c].port
    /\ SSHClientReturn(c, scall[c], "ok")
    /\ UNCHANGED <<SSHShellPort, PortFwds, pfGo, sshSent, agentSshd>>
    /\ UNCHANGED <<Targets, uuidSeq, procPanic, agentSaid, regIds>>
    /\ UNCHANGED modVars
    /\ UNCHANGED notSsh

\* SSHClient's wait for the port mapping ends after 100 polls without one.
SSHClientPortTimeout(c) ==
    /\ spc[c] = "pfwait"
    /\ ~(\E p \in PortFwds : p.Agent.Tag = scall[c].agent.Tag /\ p.To = scall[c].port)
    /\ SSHClientReturn(c, scall[c], "port mapping unsuccessful")
    /\ UNCHANGED <<SSHShellPort, PortFwds, pfGo, sshSent, agentSshd>>
    /\ UNCHANGED <<Targets, uuidSeq, procPanic, agentSaid, regIds>>
    /\ UNCHANGED modVars
    /\ UNCHANGED notSsh

(***************************************************************************)
(*                         AGENT API DISPATCHER                            *)
(***************************************************************************)

\* the longest AgentUUIDSig header, in characters
MaxSigLen == 4

\* characters of a signature header: two of the base64url alphabet, one of
\* the standard alphabet only, and the padding character
SigSymbols == {"A", "B", "+", "="}
Base64UrlAlphabet == {"A", "B"}
SigHeaders == UNION {[1..n -> SigSymbols] : n \in 0..MaxSigLen}

AgentUUIDs == {"u1", "u2"}
\* the signature the CA has issued for each agent uuid, as decoded bytes
CASig == [u \in AgentUUIDs |-> IF u = "u1" THEN <<"A", "B", "A">> ELSE <<"B", "A">>]

\* the api part of the URL: check-in, message tunnel, file transfer, static
\* file, proxy, an unknown one, and a missing one
Apis == {"checkin", "msg", "ftp", "www", "proxy", "bogus", ""}

\* the token part of the URL; a token string <nonce>-<sum> is the record of
\* its parts, a tag or other plain string has no sum
PlainToken(str) == [nonce |-> str, sum |-> NoSum]
ApiTokens == {NoToken, PlainToken("A"), PlainToken("t"), Token("g1", SHA256Sum(<<1>>)),
              Token("g2", SHA256Sum(<<1>>))}

NoReq == [api |-> "", token |-> NoToken, uuid |-> "", sig |-> << >>, fileExists |-> FALSE]

\* number of padding characters at the end of s, counted up to three
TrailingPads(s) ==
    LET n == Len(s) IN
    IF n >= 1 /\ s[n] = "="
    THEN IF n >= 2 /\ s[n - 1] = "="
         THEN IF n >= 3 /\ s[n - 2] = "=" THEN 3 ELSE 2
         ELSE 1
    ELSE 0

\* base64.URLEncoding.DecodeString(s): an error unless s is made of whole
\* quanta of four characters of the URL alphabet, the last one padded with
\* at most two "="; else the bytes, given by the characters before the padding
DecodeString(s) ==
    LET n == Len(s)
        pads == TrailingPads(s)
    IN IF \/ n % 4 # 0
          \/ pads > 2
          \/ \E i \in 1..(n - pads) : s[i] \notin Base64UrlAlphabet
       THEN [err |-> TRUE, bytes |-> << >>]
       ELSE [err |-> FALSE, bytes |-> SubSeq(s, 1, n - pads)]

\* transport.VerifySignatureWithCA(uuid, sig): sig is the CA's signature of uuid
VerifySignatureWithCA(uuid, sig) == uuid \in AgentUUIDs /\ sig = CASig[uuid]

\* agents.IsAgentExistByTag(token)
IsAgentExistByTag(token) == \E t \in Targets : PlainToken(t.Tag) = token

\* (a search that takes every stream handle for a match)
StreamsOfAny(token) == DOMAIN FTPStreams

\* for _, sh := range network.FTPStreams { if token == sh.Token {...} }: the
\* keys of the stream handles the loop can stop at
StreamsOf(token) == {f \in DOMAIN FTPStreams : FTPStreams[f].Token = token}

\* the switch on the api of apiDispatcher: the status answered and the
\* handler the request is passed to
Route(req) ==
    CASE req.api = "checkin" -> [status |-> 200, handler |-> "handleAgentCheckIn"]
      [] req.api = "msg" -> [status |-> 200, handler |-> "handleMessageTunnel"]
      [] req.api = "ftp" ->
            IF StreamsOf(req.token) # {}
            THEN [status |-> 200, handler |-> "handleFTPTransfer"]
            ELSE [status |-> 400, handler |-> "none"]
      [] req.api = "www" ->
            IF ~IsAgentExistByTag(req.token) THEN [status |-> 400, handler |-> "none"]
            ELSE IF ~req.fileExists THEN [status |-> 404, handler |-> "none"]
            ELSE [status |-> 200, handler |-> "ServeFile"]
      [] req.api = "proxy" -> [status |-> 200, handler |-> "handlePortForwarding"]
      [] OTHER -> [status |-> 400, handler |-> "none"]

\* apiDispatcher without the check of the signature
DispatchUnverified(req) ==
    IF req.api = "" \/ req.token = NoToken
    THEN [status |-> 400, handler |-> "none"]
    ELSE IF DecodeString(req.sig).err
    THEN [status |-> 400, handler |-> "none"]
    ELSE Route(req)

\* apiDispatcher: 400 for a missing api or token, for a signature header
\* that does not decode, and for a signature that does not verify; else the
\* switch on the api
Dispatch(req) ==
    IF req.api = "" \/ req.token = NoToken
    THEN [status |-> 400, handler |-> "none"]
    ELSE IF DecodeString(req.sig).err
    THEN [status |-> 400, handler |-> "none"]
    ELSE IF ~VerifySignatureWithCA(req.uuid, DecodeString(req.sig).bytes)
    THEN [status |-> 400, handler |-> "none"]
    ELSE Route(req)

\* apiDispatcher(wrt, req), for one request at a time
apiDispatcher(req) ==
    /\ apiReq = NoReq
    /\ streamsH2x' = req.uuid
    /\ apiReq' = req
    /\ apiStatus' = Dispatch(req).status
    /\ apiHandler' = Dispatch(req).handler
    /\ IF Dispatch(req).handler = "handleFTPTransfer"
       THEN apiSh' \in StreamsOf(req.token)
       ELSE apiSh' = ""
    /\ UNCHANGED notApi

\* The response is written and the request is over.
apiDispatcherReturns ==
    /\ apiReq # NoReq
    /\ apiReq' = NoReq
    /\ apiStatus' = 0
    /\ apiHandler' = "none"
    /\ apiSh' = ""
    /\ UNCHANGED streamsH2x
    /\ UNCHANGED notApi

IdleApi ==
    /\ apiReq = NoReq
    /\ apiStatus = 0
    /\ apiHandler = "none"
    /\ apiSh = ""
    /\ streamsH2x = ""

(***************************************************************************)
(*                      OPERATOR API: send-command                         *)
(***************************************************************************)

\* a *string field of def.Operation: nil, or a string (a sequence of symbols)
NilString == [set |-> FALSE, val |-> << >>]
StringPtr(str) == [set |-> TRUE, val |-> str]

\* the decoded body of a request; decoded is false for a body that is no JSON
NoOperation == [decoded |-> FALSE, AgentTag |-> "", Command |-> NilString,
                CommandID |-> NilString]

\* the command ids an operator supplies: one of its own and one that has the
\* shape of the ids uuid.NewString() hands out
OperatorIds == {<<"c1">>, UUID(1)}

\* the bodies operators post to send-command
Operations ==
    {NoOperation} \cup
    [decoded : {TRUE}, AgentTag : Tags \cup Strangers,
     Command : {NilString, StringPtr(<< >>)} \cup {StringPtr(c) : c \in Commands},
     CommandID : {NilString, StringPtr(<< >>)} \cup {StringPtr(i) : i \in OperatorIds}]

\* (a check that takes every field as set)
IsOptionSetAlways(field) == TRUE

\* operation.IsOptionSet(name): the field is there and not empty
IsOptionSet(field) == field.set /\ field.val # << >>

\* agents.GetAgentByTag(tag): the registered agent with this tag, nil if none
GetAgentByTag(tag) == GetTargetFromTag(tag)

\* the id SendCmd sends the command under: the caller's, a fresh one for ""
SendCmdID(cmd_id) == IF cmd_id = << >> THEN NewUUID ELSE cmd_id

\* agents.SendCmd(cmd, cmd_id, agent): what is written to the agent's tunnel
\* and the error returned. Send2Agent refuses an agent without control record
\* or connection; else it writes the command, and the write may fail.
SendCmd(cmd, cmd_id, agent, writeOk) ==
    IF ~Send2AgentConnected(agent.Tag)
    THEN [err |-> TRUE, sent |-> {}]
    ELSE [err |-> ~writeOk,
          sent |-> {[to |-> agent.Tag, cmd |-> cmd, id |-> SendCmdID(cmd_id),
                     ok |-> writeOk, bcast |-> FALSE]}]

\* handleSendCommand: the status answered and what was written to the tunnel
SendCommandOutcome(operation, writeOk) ==
    IF ~operation.decoded
    THEN [status |-> 400, sent |-> {}]
    ELSE IF GetAgentByTag(operation.AgentTag) = NilTarget
    THEN [status |-> 404, sent |-> {}]
    ELSE IF ~IsOptionSet(operation.Command) \/ ~IsOptionSet(operation.CommandID)
    THEN [status |-> 400, sent |-> {}]
    ELSE LET r == SendCmd(operation.Command.val, operation.CommandID.val,
                          GetAgentByTag(operation.AgentTag), writeOk)
         IN [status |-> IF r.err THEN 500 ELSE 200, sent |-> r.sent]

\* handleSendCommand(wrt, req), for one request at a time
handleSendCommand(operation, writeOk) ==
    /\ scReq = NoOperation /\ scStatus = 0
    /\ LET o == SendCommandOutcome(operation, writeOk) IN
       /\ scReq' = operation
       /\ scStatus' = o.status
       /\ ccSent' = ccSent \cup o.sent
    /\ UNCHANGED <<ActiveAgent, CurrentMod, AvailableModuleOptions, helpers, runTick,
                   runResult, modPanic>>
    /\ UNCHANGED regVars
    /\ UNCHANGED notSc

\* The response is written and the request is over.
handleSendCommandReturns ==
    /\ scStatus # 0
    /\ scReq' = NoOperation
    /\ scStatus' = 0
    /\ UNCHANGED <<regVars, modVars>>
    /\ UNCHANGED notSc

IdleSc ==
    /\ scReq = NoOperation
    /\ scStatus = 0

IdleUse == optEdited = {}

(***************************************************************************)
(*                    AGENT CONTROL CONTEXT AND ITS CHILDREN               *)
(***************************************************************************)

\* cancelling the context ctx cancels the contexts derived from it: the
\* port-forward sessions whose context has ctx as parent
CancelChildren(ctx) == {p \in PortFwds : p.CtxParent = ctx}

\* The agent's connection closes: its control context is cancelled, which
\* ends the sessions whose context derives from it, and its registry entry
\* is deleted.
AgentConnCloses(tag) ==
    /\ \E t \in Targets : t.Tag = tag
    /\ ctxCancelled' = ctxCancelled \cup {tag}
    /\ Targets' = {t \in Targets : t.Tag # tag}
    /\ everUnregistered' = TRUE
    /\ PortFwds' = PortFwds \ CancelChildren(tag)
    /\ UNCHANGED <<CmdResults, uuidSeq, procPanic, agentSaid, agentSeq>>
    /\ UNCHANGED <<SSHShellPort, pfGo, sshSent, spc, scall, agentSshd>>
    /\ UNCHANGED <<modVars, ftpVars>>
    /\ UNCHANGED notTd

IdleTd == ctxCancelled = {}

(***************************************************************************)
(* TUNNELS: the listener loops of kcptun.go and ss_tcp.go                   *)
(***************************************************************************)

\* ports in the listen range of KCPTunServer, one listener loop for each
MaxPorts == 2

\* connections that can wait on one listener
MaxBacklog == 1

\* the two listener functions of ss_tcp.go
SsFuncs == {"tcpLocal", "tcpRemote"}

TunFuncs == {"KCPTunClient", "KCPTunServer"} \cup SsFuncs

\* the goroutine KCPTunServer starts for its i-th listener
loop(i) == "loop" \o ToString(i)

ServerLoops == {loop(i) : i \in 1..MaxPorts}

Listeners == {"KCPTunClient"} \cup SsFuncs \cup ServerLoops

\* KCPTunClient: the listener is opened; a failure returns, and the deferred
\* function cancels the context.
KCPTunClient(listenOk) ==
    /\ tpc["KCPTunClient"] = "new"
    /\ IF listenOk
       THEN /\ tpc' = [tpc EXCEPT !["KCPTunClient"] = "head"]
            /\ UNCHANGED tctx
       ELSE /\ tpc' = [tpc EXCEPT !["KCPTunClient"] = "returned"]
            /\ tctx' = [tctx EXCEPT !["KCPTunClient"] = TRUE]
    /\ UNCHANGED <<backlog, muxSession>>
    /\ UNCHANGED notTun

\* `for ctx.Err() == nil`: the context is looked at between two accepts only.
KCPTunClientLoop ==
    /\ tpc["KCPTunClient"] = "head"
    /\ tpc' = [tpc EXCEPT !["KCPTunClient"] =
                  IF tctx["KCPTunClient"] THEN "returned" ELSE "accept"]
    /\ UNCHANGED <<tctx, backlog, muxSession>>
    /\ UNCHANGED notTun

\* listener.Accept() returns: with an error the function returns (and its
\* deferred function cancels the context); with a connection the session of
\* the slot is used, after waitConn() if there is none or it is closed.
KCPTunClientAccept(err) ==
    /\ tpc["KCPTunClient"] = "accept"
    /\ err \/ backlog["KCPTunClient"] > 0
    /\ IF err
       THEN /\ tpc' = [tpc EXCEPT !["KCPTunClient"] = "returned"]
            /\ tctx' = [tctx EXCEPT !["KCPTunClient"] = TRUE]
            /\ UNCHANGED backlog
       ELSE /\ backlog' = [backlog EXCEPT !["KCPTunClient"] = @ - 1]
            /\ tpc' = [tpc EXCEPT !["KCPTunClient"] =
                          IF muxSession \in {"nil", "closed"} THEN "dial" ELSE "head"]
            /\ UNCHANGED tctx
    /\ UNCHANGED muxSession
    /\ UNCHANGED notTun

\* waitConn(): createConn() is tried once a second until it succeeds.
waitConn(dialOk) ==
    /\ tpc["KCPTunClient"] = "dial"
    /\ IF dialOk
       THEN /\ muxSession' = "open"
            /\ tpc' = [tpc EXCEPT !["KCPTunClient"] = "head"]
       ELSE UNCHANGED <<muxSession, tpc>>
    /\ UNCHANGED <<tctx, backlog>>
    /\ UNCHANGED notTun

\* the smux session of the slot is closed (by the peer or by a failure)
SessionCloses ==
    /\ muxSession = "open"
    /\ muxSession' = "closed"
    /\ UNCHANGED <<tpc, tctx, backlog>>
    /\ UNCHANGED notTun

\* KCPTunServer: one listener per port of the range, each served by a loop
\* goroutine; a listener that cannot be opened returns at once, and the loops
\* that were started go on.  failAt = 0: every listener was opened.
KCPTunServer(nports, failAt) ==
    /\ tpc["KCPTunServer"] = "new"
    /\ LET started == IF failAt = 0 THEN 1..nports ELSE 1..(failAt - 1)
       IN tpc' = [l \in DOMAIN tpc |->
                     IF l = "KCPTunServer"
                     THEN IF failAt = 0 THEN "wait" ELSE "returned"
                     ELSE IF \E i \in started : l = loop(i) THEN "head" ELSE tpc[l]]
    /\ UNCHANGED <<tctx, backlog, muxSession>>
    /\ UNCHANGED notTun

\* the select of a loop goroutine: a cancelled context ends it, otherwise
\* (default) it goes into AcceptKCP().
loopSelect(l) ==
    /\ l \in ServerLoops
    /\ tpc[l] = "head"
    /\ tpc' = [tpc EXCEPT ![l] = IF tctx["KCPTunServer"] THEN "returned" ELSE "accept"]
    /\ UNCHANGED <<tctx, backlog, muxSession>>
    /\ UNCHANGED notTun

\* lis.AcceptKCP() returns: a connection is handed to handleMux, an error is
\* logged; both go back to the select.
AcceptKCP(l, err) ==
    /\ l \in ServerLoops
    /\ tpc[l] = "accept"
    /\ err \/ backlog[l] > 0
    /\ backlog' = IF err THEN backlog ELSE [backlog EXCEPT ![l] = @ - 1]
    /\ tpc' = [tpc EXCEPT ![l] = "head"]
    /\ UNCHANGED <<tctx, muxSession>>
    /\ UNCHANGED notTun

\* wg.Wait(): KCPTunServer returns when every loop it started has returned.
KCPTunServerWait ==
    /\ tpc["KCPTunServer"] = "wait"
    /\ \A l \in ServerLoops : tpc[l] \in {"new", "returned"}
    /\ tpc' = [tpc EXCEPT !["KCPTunServer"] = "returned"]
    /\ UNCHANGED <<tctx, backlog, muxSession>>
    /\ UNCHANGED notTun

\* net.Listen of tcpLocal and tcpRemote: a failure returns before the
\* `defer cancel()` is reached.
ssListen(f, listenOk) ==
    /\ f \in SsFuncs
    /\ tpc[f] = "new"
    /\ tpc' = [tpc EXCEPT ![f] = IF listenOk THEN "head" ELSE "returned"]
    /\ UNCHANGED <<tctx, backlog, muxSession>>
    /\ UNCHANGED notTun

\* `for ctx.Err() == nil` of tcpLocal and tcpRemote; leaving the loop returns
\* and runs the deferred cancel().
ssLoop(f) ==
    /\ f \in SsFuncs
    /\ tpc[f] = "head"
    /\ tpc' = [tpc EXCEPT ![f] = IF tctx[f] THEN "returned" ELSE "accept"]
    /\ UNCHANGED <<tctx, backlog, muxSession>>
    /\ UNCHANGED notTun

\* l.Accept() of tcpLocal and tcpRemote returns: an error is logged and the
\* loop continues, a connection is handed to a goroutine.
ssAccept(f, err) ==
    /\ f \in SsFuncs
    /\ tpc[f] = "accept"
    /\ err \/ backlog[f] > 0
    /\ backlog' = IF err THEN backlog ELSE [backlog EXCEPT ![f] = @ - 1]
    /\ tpc' = [tpc EXCEPT ![f] = "head"]
    /\ UNCHANGED <<tctx, muxSession>>
    /\ UNCHANGED notTun

\* a peer connects to a listener that is open
Connect(l) ==
    /\ l \in Listeners
    /\ tpc[l] \in {"head", "accept", "dial"}
    /\ backlog[l] < MaxBacklog
    /\ backlog' = [backlog EXCEPT ![l] = @ + 1]
    /\ UNCHANGED <<tpc, tctx, muxSession>>
    /\ UNCHANGED notTun

\* the caller cancels the context it passed to the function
CancelCtx(f) ==
    /\ f \in TunFuncs
    /\ ~tctx[f]
    /\ tctx' = [tctx EXCEPT ![f] = TRUE]
    /\ UNCHANGED <<tpc, backlog, muxSession>>
    /\ UNCHANGED notTun

IdleTun ==
    /\ tpc = [l \in TunFuncs \cup ServerLoops |-> "new"]
    /\ tctx = [f \in TunFuncs |-> FALSE]
    /\ backlog = [l \in Listeners |-> 0]
    /\ muxSession = "nil"

(***************************************************************************)
(* THE LOCK OF THE COMMAND CORRELATION TABLE                                *)
(***************************************************************************)

\* the functions that poll CmdResults for the answer to a command they sent
Pollers == {"StatFile", "moduleMemDump", "SSHClient"}

\* cmd_id := uuid.NewString() of each poller
CmdIdOf == [p \in Pollers |->
               UUID(IF p = "StatFile" THEN 1 ELSE IF p = "moduleMemDump" THEN 2 ELSE 3)]

\* A poller has sent its command and enters its polling loop.
PollBegin(p) ==
    /\ p \in Pollers
    /\ mpc[p] = "new"
    /\ mpc' = [mpc EXCEPT ![p] = "poll"]
    /\ UNCHANGED <<CmdResultsMutex, wid>>
    /\ UNCHANGED regVars
    /\ UNCHANGED notLock

\* res, exists := CmdResults[cmd_id]: the pollers start to read the map
\* without a call of CmdResultsMutex.Lock().
Poll(p) ==
    /\ p \in Pollers
    /\ mpc[p] = "poll"
    /\ mpc' = [mpc EXCEPT ![p] = "read"]
    /\ UNCHANGED <<CmdResultsMutex, wid>>
    /\ UNCHANGED regVars
    /\ UNCHANGED notLock

\* The read ends.  An entry that is there ends the loop, and the poller goes
\* on to delete it; without one the loop sleeps and polls again, or (lastPoll)
\* the 100 polls of moduleMemDump and SSHClient are over: moduleMemDump
\* returns, SSHClient returns through its deferred delete.
PollEnd(p, lastPoll) ==
    /\ p \in Pollers
    /\ mpc[p] = "read"
    /\ mpc' = [mpc EXCEPT ![p] =
                  IF CmdIdOf[p] \in DOMAIN CmdResults THEN "lock"
                  ELSE IF lastPoll /\ p = "moduleMemDump" THEN "done"
                  ELSE IF lastPoll /\ p = "SSHClient" THEN "lock"
                  ELSE "poll"]
    /\ UNCHANGED <<CmdResultsMutex, wid>>
    /\ UNCHANGED regVars
    /\ UNCHANGED notLock

\* processAgentData has split a result envelope and is about to store the
\* result under cmd_id.
ResultArrives(cmd_id) ==
    /\ mpc["processAgentData"] = "idle"
    /\ mpc' = [mpc EXCEPT !["processAgentData"] = "lock"]
    /\ wid' = cmd_id
    /\ UNCHANGED CmdResultsMutex
    /\ UNCHANGED regVars
    /\ UNCHANGED notLock

\* CmdResultsMutex.Lock()
MutexLock(p) ==
    /\ mpc[p] = "lock"
    /\ CmdResultsMutex = "free"
    /\ CmdResultsMutex' = p
    /\ mpc' = [mpc EXCEPT ![p] = "locked"]
    /\ UNCHANGED wid
    /\ UNCHANGED regVars
    /\ UNCHANGED notLock

\* the statement between Lock() and Unlock(): CmdResults[cmd_id] = out in
\* processAgentData, delete(CmdResults, cmd_id) in the pollers
LockedAccess(p) ==
    /\ mpc[p] = "locked"
    /\ mpc' = [mpc EXCEPT ![p] = "unlock"]
    /\ CmdResults' = IF p = "processAgentData"
                     THEN StoreResult(wid, <<"h">>)
                     ELSE DiscardResult(CmdIdOf[p])
    /\ UNCHANGED <<CmdResultsMutex, wid>>
    /\ UNCHANGED <<Targets, uuidSeq, procPanic, agentSaid, regIds>>
    /\ UNCHANGED notLock

\* CmdResultsMutex.Unlock()
MutexUnlock(p) ==
    /\ mpc[p] = "unlock"
    /\ CmdResultsMutex' = "free"
    /\ mpc' = [mpc EXCEPT ![p] = IF p = "processAgentData" THEN "idle" ELSE "done"]
    /\ UNCHANGED wid
    /\ UNCHANGED regVars
    /\ UNCHANGED notLock

IdleLock ==
    /\ CmdResultsMutex = "free"
    /\ mpc = [p \in Pollers \cup {"processAgentData"} |->
                 IF p = "processAgentData" THEN "idle" ELSE "new"]
    /\ wid = << >>

(***************************************************************************)
(* THE REGISTRY LOCK AND THE SEND TO AN AGENT                               *)
(***************************************************************************)

\* concurrent calls of Send2Agent
Senders == {"x1", "x2"}

\* Send2Agent up to out.Encode: TargetsMutex.RLock() with the RUnlock
\* deferred, then the checks of the control record and of its connection.
Send2Agent(x, tag) ==
    /\ x \in Senders
    /\ xpc[x] = "idle"
    /\ TargetsRLock' = TargetsRLock \cup {x}
    /\ xpc' = [xpc EXCEPT ![x] = IF Send2AgentConnected(tag) THEN "encode" ELSE "return"]
    /\ UNCHANGED regVars
    /\ UNCHANGED notRlock

\* out.Encode(data): the write to the agent's connection ends (it blocks as
\* long as the agent does not take the data).
Send2AgentEncode(x) ==
    /\ xpc[x] = "encode"
    /\ xpc' = [xpc EXCEPT ![x] = "return"]
    /\ UNCHANGED TargetsRLock
    /\ UNCHANGED regVars
    /\ UNCHANGED notRlock

\* return: the deferred TargetsMutex.RUnlock() runs.
Send2AgentReturn(x) ==
    /\ xpc[x] = "return"
    /\ xpc' = [xpc EXCEPT ![x] = "idle"]
    /\ TargetsRLock' = TargetsRLock \ {x}
    /\ UNCHANGED regVars
    /\ UNCHANGED notRlock

\* A registration or an unregistration changes Targets under
\* TargetsMutex.Lock(), which waits until no read lock is held.
RegistryWrite(tag) ==
    /\ TargetsRLock = {}
    /\ Register(tag) \/ MsgTunnelUp(tag) \/ Unregister(tag)

IdleRlock ==
    /\ TargetsRLock = {}
    /\ xpc = [x \in Senders |-> "idle"]

(***************************************************************************)
(*          THE SESSIONS OF THE KCP CLIENT AND THEIR SCAVENGER             *)
(***************************************************************************)

\* the accepted connections counted in a run with auto-expiry
MaxAccepts == 3

\* the accepted connections counted in a run without auto-expiry: past the
\* range of the uint16 counter rr
MaxAcceptsPlain == 65538

\* the sessions createConn makes in a run
MaxSessions == 4

\* the sessions that close on their own in a run
MaxCloses == 1

\* the seconds the clock counts
MaxClock == 6

\* rr := uint16(0); numconn := uint16(config.Conn): the values of a uint16
Uint16 == 65536

\* chScavenger := make(chan timedSession, 128)
ChScavengerCap == 128

\* the fields of Config the client loop and the scavenger read.  NewConfig
\* sets Conn = 1, AutoExpire = 0, ScavengeTTL = 600; the other values are
\* those of a Config with more connections or with auto-expiry.
Configs ==
    {[Conn |-> 1, AutoExpire |-> 0, ScavengeTTL |-> 600],
     [Conn |-> 3, AutoExpire |-> 0, ScavengeTTL |-> 600],
     [Conn |-> 2, AutoExpire |-> 1, ScavengeTTL |-> 1],
     [Conn |-> 1, AutoExpire |-> 2, ScavengeTTL |-> 0]}

\* numconn := uint16(config.Conn)
numconn == config.Conn % Uint16

\* timedSession{}: no session, the zero time
NilSession == 0

\* session.IsClosed()
IsClosed(s) == smux[s].closed

\* (a clock that every date lies before)
AfterAlways(t, u) == TRUE

\* t.After(u)
After(t, u) == t > u

\* (a test only an unset slot passes)
NeedsSessionUnset(idx) == muxes[idx].session = NilSession

\* muxes[idx].session == nil || muxes[idx].session.IsClosed() ||
\*     (config.AutoExpire > 0 && time.Now().After(muxes[idx].expiryDate))
NeedsSession(idx) ==
    \/ muxes[idx].session = NilSession
    \/ IsClosed(muxes[idx].session)
    \/ (config.AutoExpire > 0 /\ After(now, muxes[idx].expiryDate))

\* (a client that hands no session to the scavenger)
HandOverNone(ch, item) == ch

\* if config.AutoExpire > 0 { chScavenger <- muxes[idx] }
HandOver(ch, item) == IF config.AutoExpire > 0 THEN Append(ch, item) ELSE ch

\* the connections counted in this run
AcceptCap == IF config.AutoExpire > 0 THEN MaxAccepts ELSE MaxAcceptsPlain

\* go clientHandleConn(_Q_, key, muxes[idx].session, p1, ...); rr++
clientHandleConn(session, idx) ==
    /\ carried' = [i |-> accepted, slot |-> idx, session |-> session]
    /\ accepted' = accepted + 1
    /\ rr' = (rr + 1) % Uint16

\* p1, err := listener.Accept(): on an error the client returns; else the
\* slot is rr % numconn, and a slot whose session is good carries the
\* connection at once.
MuxAccept(err) ==
    /\ kpc = "accept"
    /\ accepted < AcceptCap
    /\ IF err
       THEN /\ kpc' = "returned"
            /\ UNCHANGED <<rr, accepted, carried>>
       ELSE LET idx == rr % numconn IN
            IF NeedsSession(idx)
            THEN /\ kpc' = "waitConn"
                 /\ UNCHANGED <<rr, accepted, carried>>
            ELSE /\ kpc' = "accept"
                 /\ clientHandleConn(muxes[idx].session, idx)
    /\ UNCHANGED <<config, muxes, smux, chScavenger, sessionList, now, expiredOut>>
    /\ UNCHANGED notKcp

\* muxes[idx].session = waitConn(): createConn is tried until it succeeds;
\* the new session gets its expiry date, goes to the scavenger when
\* auto-expiry is set, and carries the connection.
MuxWaitConn(dialOk) ==
    /\ kpc = "waitConn"
    /\ LET idx == rr % numconn
           old == muxes[idx].session
           s == Cardinality(DOMAIN smux) + 1
           item == [session |-> s, expiryDate |-> now + config.AutoExpire]
       IN IF /\ dialOk
             /\ s <= MaxSessions
             /\ config.AutoExpire > 0 =>
                   /\ now + config.AutoExpire + config.ScavengeTTL < MaxClock
                   /\ Len(chScavenger) < ChScavengerCap
          THEN /\ muxes' = [muxes EXCEPT ![idx] = item]
               /\ smux' = [t \in DOMAIN smux \cup {s} |->
                              IF t = s THEN [closed |-> FALSE, by |-> "",
                                             expiryDate |-> item.expiryDate]
                              ELSE smux[t]]
               /\ chScavenger' = HandOver(chScavenger, item)
               /\ expiredOut' = IF old # NilSession /\ ~IsClosed(old)
                                THEN expiredOut \cup {old} ELSE expiredOut
               /\ kpc' = "accept"
               /\ clientHandleConn(s, idx)
          ELSE UNCHANGED <<muxes, smux, chScavenger, expiredOut, kpc, carried, accepted, rr>>
    /\ UNCHANGED <<config, sessionList, now>>
    /\ UNCHANGED notKcp

\* A session is closed by its peer or by the network.
MuxSessionCloses(s) ==
    /\ s \in DOMAIN smux
    /\ ~smux[s].closed
    /\ Cardinality({t \in DOMAIN smux : smux[t].by = "peer"}) < MaxCloses
    /\ smux' = [smux EXCEPT ![s].closed = TRUE, ![s].by = "peer"]
    /\ UNCHANGED <<config, kpc, rr, accepted, muxes, chScavenger, sessionList, now, carried,
                   expiredOut>>
    /\ UNCHANGED notKcp

\* A second passes.  The clock is read only where auto-expiry is set.
TimePasses ==
    /\ config.AutoExpire > 0
    /\ now < MaxClock
    /\ now' = now + 1
    /\ UNCHANGED <<config, kpc, rr, accepted, muxes, smux, chScavenger, sessionList, carried,
                   expiredOut>>
    /\ UNCHANGED notKcp

\* scavenger, case item := <-ch: the session is tracked with its expiry date
\* moved by ScavengeTTL seconds
scavengerReceive ==
    /\ config.AutoExpire > 0
    /\ chScavenger # << >>
    /\ sessionList' = Append(sessionList,
                             [session |-> Head(chScavenger).session,
                              expiryDate |-> Head(chScavenger).expiryDate
                                             + config.ScavengeTTL])
    /\ chScavenger' = Tail(chScavenger)
    /\ UNCHANGED <<config, kpc, rr, accepted, muxes, smux, now, carried, expiredOut>>
    /\ UNCHANGED notKcp

\* scavenger, case <-ticker.C: a closed session is dropped, a session past
\* its date is closed and dropped, the others stay.
scavengerTick ==
    /\ config.AutoExpire > 0
    /\ LET due == {sessionList[k].session : k \in
                      {j \in DOMAIN sessionList :
                          /\ ~IsClosed(sessionList[j].session)
                          /\ After(now, sessionList[j].expiryDate)}}
           keeps(e) == ~IsClosed(e.session) /\ ~After(now, e.expiryDate)
       IN /\ smux' = [t \in DOMAIN smux |->
                         IF t \in due THEN [smux[t] EXCEPT !.closed = TRUE, !.by = "scavenger"]
                         ELSE smux[t]]
          /\ sessionList' = SelectSeq(sessionList, keeps)
    /\ UNCHANGED <<config, kpc, rr, accepted, muxes, chScavenger, now, carried, expiredOut>>
    /\ UNCHANGED notKcp

\* no client loop runs
IdleKcp ==
    /\ config = [Conn |-> 1, AutoExpire |-> 0, ScavengeTTL |-> 600]
    /\ kpc = "idle"
    /\ rr = 0
    /\ accepted = 0
    /\ muxes = << >>
    /\ smux = << >>
    /\ chScavenger = << >>
    /\ sessionList = << >>
    /\ now = 0
    /\ carried = [i |-> -1, slot |-> 0, session |-> NilSession]
    /\ expiredOut = {}

\* KCPTunClient has reached its accept loop: muxes := make([]timedSession,
\* numconn); rr := uint16(0)
InitKcp(cfgs) ==
    /\ config \in cfgs
    /\ kpc = "accept"
    /\ rr = 0
    /\ accepted = 0
    /\ muxes = [k \in 0..(numconn - 1) |-> [session |-> NilSession, expiryDate |-> 0]]
    /\ smux = << >>
    /\ chScavenger = << >>
    /\ sessionList = << >>
    /\ now = 0
    /\ carried = [i |-> -1, slot |-> 0, session |-> NilSession]
    /\ expiredOut = {}

(***************************************************************************)
(*                    THE LABELS OF THE AGENTS ON DISK                     *)
(***************************************************************************)

\* the labels the operator gives
Labels == {"x", "y"}

\* LabeledAgent{Tag, Label}
LabeledAgent(tag, lbl) == [Tag |-> tag, Label |-> lbl]

\* for i, l := range list { if l.Tag == tag {...} }: the first record of the
\* tag, 0 if there is none
FirstOf(list, tag) ==
    IF \E i \in DOMAIN list : list[i].Tag = tag
    THEN CHOOSE i \in DOMAIN list :
            list[i].Tag = tag /\ \A j \in 1..(i - 1) : list[j].Tag # tag
    ELSE 0

\* The operator labels a connected agent.
LabelAgent(tag, lbl) ==
    /\ \E c \in Targets : c.Tag = tag
    /\ Targets' = {IF c.Tag = tag THEN [c EXCEPT !.Label = lbl] ELSE c : c \in Targets}
    /\ UNCHANGED <<CmdResults, uuidSeq, procPanic, agentSaid, regIds>>
    /\ UNCHANGED lblVars
    /\ UNCHANGED notLbl

\* ListTargets, GetTargetDetails: if control.Label == "" { control.Label = "nolabel" }
ListTargets ==
    /\ Targets' = {IF c.Label = "" THEN [c EXCEPT !.Label = "nolabel"] ELSE c : c \in Targets}
    /\ UNCHANGED <<CmdResults, uuidSeq, procPanic, agentSaid, regIds>>
    /\ UNCHANGED lblVars
    /\ UNCHANGED notLbl

\* labelAgents(): read the records of agents.json if the file exists (a
\* failed read or parse leaves old empty), update the first record of each
\* labelled agent, put the labelled agents without a record in front, and
\* write the list unless it is empty.
labelAgents(readErr, writeErr) ==
    /\ readErr => agentsJsonExists
    /\ LET old == IF agentsJsonExists /\ ~readErr THEN agentsJson ELSE << >>
           labelled == {c \in Targets : c.Label # ""}
           old2 == [i \in DOMAIN old |->
                       IF \E c \in labelled : c.Tag = old[i].Tag /\ FirstOf(old, c.Tag) = i
                       THEN LabeledAgent(old[i].Tag,
                                (CHOOSE c \in labelled : c.Tag = old[i].Tag).Label)
                       ELSE old[i]]
           new == {c \in labelled : FirstOf(old, c.Tag) = 0}
       IN \E order \in [1..Cardinality(new) -> new] :
             /\ \A i, j \in DOMAIN order : order[i] = order[j] => i = j
             /\ LET labeledAgents ==
                        [i \in DOMAIN order |-> LabeledAgent(order[i].Tag, order[i].Label)]
                        \o old2
                IN IF Len(labeledAgents) = 0 \/ writeErr
                   THEN UNCHANGED <<agentsJson, agentsJsonExists>>
                   ELSE /\ agentsJson' = labeledAgents
                        /\ agentsJsonExists' = TRUE
    /\ UNCHANGED label
    /\ UNCHANGED regVars
    /\ UNCHANGED notLbl

\* SetAgentLabel(a): the label of the first record of a.Tag in agents.json;
\* it is stored in the agent's control record if the agent is connected.
SetAgentLabel(tag, readErr) ==
    /\ LET i == FirstOf(agentsJson, tag) IN
       IF ~agentsJsonExists \/ readErr \/ i = 0
       THEN /\ label' = [Tag |-> tag, Label |-> ""]
            /\ UNCHANGED Targets
       ELSE /\ label' = [Tag |-> tag, Label |-> agentsJson[i].Label]
            /\ Targets' = {IF c.Tag = tag THEN [c EXCEPT !.Label = agentsJson[i].Label]
                           ELSE c : c \in Targets}
    /\ UNCHANGED <<agentsJson, agentsJsonExists>>
    /\ UNCHANGED <<CmdResults, uuidSeq, procPanic, agentSaid, regIds>>
    /\ UNCHANGED notLbl

\* no agents.json, no call of SetAgentLabel
IdleLbl ==
    /\ agentsJsonExists = FALSE
    /\ agentsJson = << >>
    /\ label = [Tag |-> "", Label |-> ""]

(***************************************************************************)
(*                    THE RELAY BETWEEN TWO CONNECTIONS                    *)
(***************************************************************************)

\* the chunks io.Copy moves in one direction of a run
MaxChunks == 2

\* the two copies of relay: the goroutine's io.Copy(right, left) and the
\* caller's io.Copy(left, right)
Copies == {"err1", "err"}

\* the connection a copy reads, and the one it writes
Src(d) == IF d = "err1" THEN "left" ELSE "right"
Dst(d) == IF d = "err1" THEN "right" ELSE "left"

\* errors.Is(e, os.ErrDeadlineExceeded)
IsDeadlineExceeded(e) == e = "deadline"

\* relay(left, right) is called: both copies start to read.
relay ==
    /\ rpc = [d \in Copies |-> "idle"]
    /\ relayRet = "none"
    /\ rpc' = [d \in Copies |-> "read"]
    /\ relayRet' = "running"
    /\ UNCHANGED <<rerr, deadline, moved>>
    /\ UNCHANGED notRelay

\* a copy is over with error e (nil after EOF); the line after it sets the
\* read deadline of the connection the other copy reads:
\* right.SetReadDeadline(time.Now().Add(wait)) after io.Copy(right, left),
\* left.SetReadDeadline(time.Now().Add(wait)) after io.Copy(left, right)
CopyEnds(d, e) ==
    /\ rpc' = [rpc EXCEPT ![d] = "done"]
    /\ rerr' = [rerr EXCEPT ![d] = e]
    /\ deadline' = [deadline EXCEPT ![Dst(d)] = "set"]

\* io.Copy's src.Read returns: a chunk, EOF, or an error of the connection
CopyRead(d, outcome) ==
    /\ rpc[d] = "read"
    /\ deadline[Src(d)] # "expired"
    /\ IF outcome = "data"
       THEN /\ moved[d] < MaxChunks
            /\ rpc' = [rpc EXCEPT ![d] = "write"]
            /\ UNCHANGED <<rerr, deadline>>
       ELSE CopyEnds(d, IF outcome = "EOF" THEN "nil" ELSE "io")
    /\ UNCHANGED <<relayRet, moved>>
    /\ UNCHANGED notRelay

\* src.Read returns the timeout error of a read deadline that has passed
ReadTimesOut(d) ==
    /\ rpc[d] = "read"
    /\ deadline[Src(d)] = "expired"
    /\ CopyEnds(d, "deadline")
    /\ UNCHANGED <<relayRet, moved>>
    /\ UNCHANGED notRelay

\* io.Copy's dst.Write returns: the peer has taken the chunk, or the
\* connection failed.  No deadline is set for writes.
CopyWrite(d, ok) ==
    /\ rpc[d] = "write"
    /\ IF ok
       THEN /\ rpc' = [rpc EXCEPT ![d] = "read"]
            /\ moved' = [moved EXCEPT ![d] = @ + 1]
            /\ UNCHANGED <<rerr, deadline>>
       ELSE /\ CopyEnds(d, "io")
            /\ UNCHANGED moved
    /\ UNCHANGED relayRet
    /\ UNCHANGED notRelay

\* the 5 seconds of a read deadline pass
DeadlinePasses(conn) ==
    /\ deadline[conn] = "set"
    /\ deadline' = [deadline EXCEPT ![conn] = "expired"]
    /\ UNCHANGED <<rpc, rerr, relayRet, moved>>
    /\ UNCHANGED notRelay

\* wg.Wait() is over and relay returns: err1 unless it is nil or a deadline
\* error, else err unless it is nil or a deadline error, else nil
relayReturns ==
    /\ relayRet = "running"
    /\ \A d \in Copies : rpc[d] = "done"
    /\ relayRet' = IF rerr["err1"] # "nil" /\ ~IsDeadlineExceeded(rerr["err1"])
                   THEN rerr["err1"]
                   ELSE IF rerr["err"] # "nil" /\ ~IsDeadlineExceeded(rerr["err"])
                   THEN rerr["err"]
                   ELSE "nil"
    /\ UNCHANGED <<rpc, rerr, deadline, moved>>
    /\ UNCHANGED notRelay

\* no relay runs
IdleRelay ==
    /\ rpc = [d \in Copies |-> "idle"]
    /\ rerr = [d \in Copies |-> "nil"]
    /\ deadline = [c \in {"left", "right"} |-> "unset"]
    /\ relayRet = "none"
    /\ moved = [d \in Copies |-> 0]

(***************************************************************************)
(*                        THE CORKED CONNECTION                            *)
(***************************************************************************)

\* the size of the bufio.Writer of a corked connection (1280 in the calls of
\* timedCork), and the bytes offered to Write in a run
BufSize == 2
MaxBytes == 5

\* the slices a call of Write may pass (one more byte than the buffer holds
\* at most)
MaxWrite == BufSize + 1

\* timedCork(c, d, bufSize)
timedCork ==
    [corked |-> TRUE, err |-> "nil", once |-> FALSE, buf |-> <<>>, berr |-> "nil"]

\* the underlying Conn.Write(p): all of p, or an error after `short` bytes
ConnWrite(out, p, ok, short) ==
    IF ok
    THEN [out |-> out \o p, n |-> Len(p), err |-> "nil"]
    ELSE LET k == Min(short, Len(p) - 1)
         IN [out |-> out \o SubSeq(p, 1, k), n |-> k, err |-> "io"]

\* (a flush that writes the buffer twice)
FlushTwice(c, out, ok, short) ==
    IF c.berr # "nil" \/ c.buf = <<>>
    THEN [c |-> c, out |-> out, n |-> 0]
    ELSE LET r == ConnWrite(out \o c.buf, c.buf, ok, short)
         IN [c |-> [c EXCEPT !.buf = SubSeq(c.buf, r.n + 1, Len(c.buf)),
                             !.berr = r.err],
             out |-> r.out, n |-> r.n]

\* bufio.Writer.Flush of w.bufw: the sticky error if there is one, else the
\* buffer goes to the connection; after a short write the rest stays
Flush(c, out, ok, short) ==
    IF c.berr # "nil" \/ c.buf = <<>>
    THEN [c |-> c, out |-> out, n |-> 0]
    ELSE LET r == ConnWrite(out, c.buf, ok, short)
         IN [c |-> [c EXCEPT !.buf = SubSeq(c.buf, r.n + 1, Len(c.buf)),
                             !.berr = r.err],
             out |-> r.out, n |-> r.n]

\* bufio.Writer.Write(p) of w.bufw, nn bytes taken so far and fl bytes
\* flushed so far: while p does not fit, an empty buffer passes p to the
\* connection, a non-empty one is filled and flushed
RECURSIVE BufWrite(_, _, _, _, _, _, _)
BufWrite(c, out, p, nn, fl, ok, short) ==
    IF Len(p) > BufSize - Len(c.buf) /\ c.berr = "nil"
    THEN IF c.buf = <<>>
         THEN LET r == ConnWrite(out, p, ok, short)
              IN BufWrite([c EXCEPT !.berr = r.err], r.out,
                          SubSeq(p, r.n + 1, Len(p)), nn + r.n, fl, ok, short)
         ELSE LET n == BufSize - Len(c.buf)
                  f == Flush([c EXCEPT !.buf = @ \o SubSeq(p, 1, n)], out, ok, short)
              IN BufWrite(f.c, f.out, SubSeq(p, n + 1, Len(p)), nn + n,
                          fl + f.n, ok, short)
    ELSE IF c.berr # "nil"
         THEN [c |-> c, out |-> out, n |-> nn, err |-> c.berr, fl |-> fl]
         ELSE [c |-> [c EXCEPT !.buf = @ \o p], out |-> out, n |-> nn + Len(p),
               err |-> "nil", fl |-> fl]

\* (w *corkedConn) Write(p), under w.lock: the stored error; else, corked,
\* the timer is started once and p goes to the buffer; else p goes to the
\* connection
Write(len, ok, short) ==
    /\ offered + len <= MaxBytes
    /\ LET p == [i \in 1..len |-> offered + i]
           r == IF cork.err # "nil"
                THEN [c |-> cork, out |-> connOut, n |-> 0, err |-> cork.err, fl |-> 0]
                ELSE IF cork.corked
                THEN BufWrite([cork EXCEPT !.once = TRUE], connOut, p, 0, 0, ok, short)
                ELSE LET d == ConnWrite(connOut, p, ok, short)
                     IN [c |-> cork, out |-> d.out, n |-> d.n, err |-> d.err, fl |-> 0]
       IN /\ cork' = r.c
          /\ connOut' = r.out
          /\ wret' = [n |-> r.n, err |-> r.err]
          /\ wrote' = wrote \o SubSeq(p, 1, r.n)
          /\ corkHist' = [corkHist EXCEPT
                 !.failed = @ \/ (r.err # "nil" /\ cork.err = "nil" /\ cork.berr = "nil"),
                 !.flushed = @ + r.fl]
    /\ offered' = offered + len
    /\ UNCHANGED notCork

\* the function time.AfterFunc(w.delay, ...) runs, under w.lock:
\* w.corked = false; w.err = w.bufw.Flush()
TimerFires(ok, short) ==
    /\ cork.once
    /\ cork.corked
    /\ LET f == Flush(cork, connOut, ok, short)
       IN /\ cork' = [f.c EXCEPT !.corked = FALSE, !.err = f.c.berr]
          /\ connOut' = f.out
          /\ corkHist' = [corkHist EXCEPT !.failed = @ \/ f.c.berr # cork.berr,
                                          !.flushed = @ + f.n]
    /\ UNCHANGED <<wrote, wret, offered>>
    /\ UNCHANGED notCork

\* a connection fresh from timedCork, nothing written
IdleCork ==
    /\ cork = timedCork
    /\ connOut = <<>>
    /\ wrote = <<>>
    /\ wret = [n |-> 0, err |-> "nil"]
    /\ offered = 0
    /\ corkHist = [failed |-> FALSE, flushed |-> 0]

(***************************************************************************)
(*               THE NESTED READ LOCKS OF THE REGISTRY                     *)
(***************************************************************************)

\* the functions that call, with TargetsMutex read-locked and the RUnlock
\* deferred, a function that read-locks it again
Nesters == {"processAgentData", "ListTargets", "GetTargetDetails"}

\* the read locks a call takes one inside the other:
\* processAgentData and GetTargetFromTag; ListTargets and, in headless
\* mode, headlessListTargets; GetTargetDetails, for a target that exists
\* with a control record, and ListTargets with its own
Nesting(f, api, exists) ==
    IF f = "processAgentData" THEN 2
    ELSE IF f = "ListTargets" THEN (IF api THEN 2 ELSE 1)
    ELSE IF exists THEN (IF api THEN 3 ELSE 2) ELSE 1

\* f is called: its own TargetsMutex.RLock().  sync.RWMutex lets no reader
\* in while a writer holds the lock or waits for it.
NestCall(f, api, exists) ==
    /\ rdepth[f] = 0
    /\ rgoal[f] = 0
    /\ wlock = "free"
    /\ rdepth' = [rdepth EXCEPT ![f] = 1]
    /\ rgoal' = [rgoal EXCEPT ![f] = Nesting(f, api, exists)]
    /\ UNCHANGED wlock
    /\ UNCHANGED notNest

\* the function called with the lock held calls TargetsMutex.RLock()
NestRLock(f) ==
    /\ 0 < rdepth[f]
    /\ rdepth[f] < rgoal[f]
    /\ wlock = "free"
    /\ rdepth' = [rdepth EXCEPT ![f] = @ + 1]
    /\ UNCHANGED <<rgoal, wlock>>
    /\ UNCHANGED notNest

\* the innermost function returns, then the ones around it: each deferred
\* TargetsMutex.RUnlock() runs
NestRUnlock(f) ==
    /\ 0 < rdepth[f]
    /\ rdepth[f] >= rgoal[f]
    /\ rdepth' = [rdepth EXCEPT ![f] = @ - 1]
    /\ rgoal' = [rgoal EXCEPT ![f] = rdepth[f] - 1]
    /\ UNCHANGED wlock
    /\ UNCHANGED notNest

\* a registration or an unregistration calls TargetsMutex.Lock()
TargetsLock ==
    /\ wlock = "free"
    /\ wlock' = "waiting"
    /\ UNCHANGED <<rdepth, rgoal>>
    /\ UNCHANGED notNest

\* Lock() returns once no read lock is held
TargetsLocked ==
    /\ wlock = "waiting"
    /\ \A f \in Nesters : rdepth[f] = 0
    /\ wlock' = "held"
    /\ UNCHANGED <<rdepth, rgoal>>
    /\ UNCHANGED notNest

\* TargetsMutex.Unlock()
TargetsUnlock ==
    /\ wlock = "held"
    /\ wlock' = "free"
    /\ UNCHANGED <<rdepth, rgoal>>
    /\ UNCHANGED notNest

IdleNest ==
    /\ rdepth = [f \in Nesters |-> 0]
    /\ rgoal = [f \in Nesters |-> 0]
    /\ wlock = "free"

(***************************************************************************)
(*                  THE DOWNLOAD OF A SCREENSHOT                           *)
(***************************************************************************)

\* the paths an agent reports for its screenshot, as their elements: a bare
\* file name and a file in a directory
ShotOuts == {<<"shot.png">>, <<"tmp", "shot.png">>}

\* the calls of ProcessScreenshot that call themselves followed in a run
MaxTries == 2

\* the path of the file-transfer engine whose final, temp and lock file
\* stand for those of the screenshot
ShotPath == CHOOSE p \in Paths : TRUE

\* the call of GetFile that the n-th call of ProcessScreenshot makes
CallOf(n) == IF n = 1 THEN "g1" ELSE "g2"

\* live.FileGetDir, below the workspace
FileGetDir == <<"file-get">>

\* util.FileBaseName and filepath.Dir ("." for a bare file name)
FileBaseName(out) == out[Len(out)]
Dir(out) == IF Len(out) = 1 THEN <<".">> ELSE SubSeq(out, 1, Len(out) - 1)

\* the file a path names: its "." elements dropped
Resolve(path) == SelectSeq(path, LAMBDA e : e # ".")

\* GenerateGetFilePaths: write_dir = FileGetDir + Dir(file_path),
\* save_to_file = write_dir + "/" + FileBaseName(file_path)
SaveTo(out) == Resolve(FileGetDir \o Dir(out) \o <<FileBaseName(out)>>)

\* where ProcessScreenshot looks: live.FileGetDir + path, path the base name
WatchAt(out) == Resolve(FileGetDir \o <<FileBaseName(out)>>)

\* util.IsExist of the final file, of the ".downloading" file and of the
\* ".lock" file at a place: GetFile and the stream writer keep theirs at
\* SaveTo(out), and nothing else writes below FileGetDir
IsExistAt(place, suffix, out) ==
    /\ place = SaveTo(out)
    /\ CASE suffix = "" -> finalFile[ShotPath].exists
         [] suffix = ".downloading" -> tempFile[ShotPath].exists
         [] suffix = ".lock" -> lockFile[ShotPath]

is_download_completed(out) ==
    /\ ~IsExistAt(WatchAt(out), ".downloading", out)
    /\ IsExistAt(WatchAt(out), "", out)

is_download_corrupted(out) ==
    /\ ~is_download_completed(out)
    /\ ~IsExistAt(WatchAt(out), ".lock", out)

\* ProcessScreenshot(out, target) up to its call of GetFile: an output with
\* "Error" in it is returned as the error
ProcessScreenshot(out, isError) ==
    /\ shot.pc = "idle"
    /\ shot' = IF isError
               THEN [shot EXCEPT !.pc = "done", !.out = out, !.ret = "error"]
               ELSE [shot EXCEPT !.pc = "getfile", !.out = out, !.tries = 1]
    /\ UNCHANGED notShot

\* the call of GetFile returns: its error is returned, else the loop starts
ShotGetFileReturns ==
    /\ shot.pc = "getfile"
    /\ gpc[CallOf(shot.tries)] = "done"
    /\ shot' = IF gcall[CallOf(shot.tries)].result \in {"transfer", "already exists"}
               THEN [shot EXCEPT !.pc = "wait"]
               ELSE [shot EXCEPT !.pc = "done", !.ret = "get screenshot"]
    /\ UNCHANGED notShot

\* one turn of the loop after time.Sleep: break when the download is
\* completed (what follows the loop does not fail here), call
\* ProcessScreenshot again when it is corrupted
ShotPoll ==
    /\ shot.pc = "wait"
    /\ IF is_download_completed(shot.out)
       THEN shot' = [shot EXCEPT !.pc = "done", !.ret = "nil"]
       ELSE /\ is_download_corrupted(shot.out)
            /\ shot.tries < MaxTries
            /\ shot' = [shot EXCEPT !.pc = "getfile", !.tries = @ + 1]
    /\ UNCHANGED notShot

IdleShot ==
    shot = [pc |-> "idle", out |-> << >>, tries |-> 0, ret |-> ""]

IdleExt == IdleSc /\ IdleUse /\ IdleTd /\ IdleTun /\ IdleLock /\ IdleRlock /\ IdleKcp /\ IdleLbl /\ IdleRelay /\ IdleCork /\ IdleNest /\ IdleShot

(***************************************************************************)
(*                           SPECIFICATIONS                                *)
(***************************************************************************)

IdleSsh ==
    /\ SSHShellPort = << >>
    /\ PortFwds = {}
    /\ pfGo = {}
    /\ sshSent = {}
    /\ spc = [c \in SshCalls |-> "new"]
    /\ scall = [c \in SshCalls |-> NoSshCall]
    /\ agentSshd = {}

IdleOp ==
    /\ OPERATORS = << >>
    /\ rev = 2
    /\ hpc = [h \in Handlers |-> "idle"]
    /\ hsession = [h \in Handlers |-> NoSession]
    /\ timeoutTimer = [h \in Handlers |-> [active |-> FALSE, left |-> 0]]
    /\ heartbeatTicker = [h \in Handlers |-> FALSE]
    /\ connOpen = [h \in Handlers |-> FALSE]
    /\ ctxDone = [h \in Handlers |-> FALSE]
    /\ timedOut = [h \in Handlers |-> FALSE]
    /\ sinceHb = [h \in Handlers |-> 0]
    /\ resumedLate = [h \in Handlers |-> FALSE]

\* One operator connection followed through MaxSilence seconds.
NextOp ==
    \/ \E s \in Sessions : handleOperatorConn("c1", s)
    \/ HandleTick("c1")
    \/ HandleCtxDone("c1")
    \/ CtxCancel("c1")
    \/ OperatorHeartbeat("c1")
    \/ Second(MaxSilence)


InitOpSpec == InitOp /\ IdleReg /\ IdleFtp /\ IdleMod /\ IdleSsh /\ IdleApi /\ IdleExt

SpecOp == InitOpSpec /\ [][NextOp]_vars

\* Agents A and B, and a stranger, send result envelopes and other payloads.
NextCorr ==
    \/ \E tag \in Tags \cup Strangers, cmd \in Commands, text \in Texts, id \in CorrIds :
          AgentResult(tag, cmd, text, id)
    \/ \E tag \in Tags \cup Strangers, payload \in RawPayloads : AgentRaw(tag, payload)

InitCorrSpec == IdleOp /\ IdleReg /\ IdleFtp /\ IdleMod /\ IdleSsh /\ IdleApi /\ IdleExt

SpecCorr == InitCorrSpec /\ [][NextCorr]_vars

\* Agents check in, bring up their message tunnel and are unregistered, while
\* the operator selects targets.
NextReg ==
    \/ \E tag \in Tags : Register(tag)
    \/ \E tag \in Tags : MsgTunnelUp(tag)
    \/ \E tag \in Tags : Unregister(tag)
    \/ \E tag \in Tags \cup Strangers : SetActiveAgent(tag)

InitRegSpec == IdleOp /\ InitReg /\ IdleFtp /\ IdleMod /\ IdleSsh /\ IdleApi /\ IdleExt

SpecReg == InitRegSpec /\ [][NextReg]_vars

\* The operator selects targets and modules and runs the module, while agents
\* are unregistered.
NextMod ==
    \/ \E tag \in Tags : SetActiveAgent(tag)
    \/ \E modName \in ModuleHelpers \cup {"nomod"} : setActiveModule(modName)
    \/ ModuleRun
    \/ \E order \in RangeOrders, ioFail \in SUBSET Tags : moduleCmd(order, ioFail)
    \/ \E tag \in Tags : Unregister(tag)

InitModSpec == IdleOp /\ IdleReg /\ IdleFtp /\ IdleMod /\ IdleSsh /\ IdleApi /\ IdleExt

SpecMod == InitModSpec /\ [][NextMod]_vars

\* Agents A and B are connected; the operator runs cmd_exec on one or on
\* all of them and the agents answer.
NextBcast ==
    \/ \E tag \in Tags \cup Strangers : SetActiveAgent(tag)
    \/ \E modName \in {"cmd_exec"} : setActiveModule(modName)
    \/ ModuleRun
    \/ \E order \in RangeOrders, ioFail \in SUBSET Tags : moduleCmd(order, ioFail)
    \/ \E m \in ccSent : \E text \in ReplyTexts(m.to) : AgentAnswers(m, text)

SpecBcast == InitModSpec /\ [][NextBcast]_vars

\* The shell module is selected; the operator selects targets and opens
\* shells with two calls of SSHClient.
NextSsh ==
    \/ \E tag \in Tags : SetActiveAgent(tag)
    \/ \E c \in SshCalls, shell \in Shells, port \in Ports, new_port \in Ports,
          lport \in LPorts, sshInstalled \in BOOLEAN, sendOk \in BOOLEAN :
          SSHClient(c, shell, port, new_port, lport, sshInstalled, sendOk)
    \/ \E c \in SshCalls, new_port \in Ports, lport \in LPorts,
          sshInstalled \in BOOLEAN, sendOk \in BOOLEAN :
          SSHClientAgain(c, new_port, lport, sshInstalled, sendOk)
    \/ \E m \in sshSent, works \in BOOLEAN : AgentSshdReply(m, works)
    \/ \E c \in SshCalls : SSHClientResponse(c)
    \/ \E c \in SshCalls : SSHClientNoResponse(c)
    \/ \E g \in pfGo, listenOk \in BOOLEAN : PortFwdGoroutine(g, listenOk)
    \/ \E c \in SshCalls : SSHClientPortReady(c)
    \/ \E c \in SshCalls : SSHClientPortTimeout(c)

InitSshMod ==
    /\ ActiveAgent = NilTarget
    /\ CurrentMod = "shell"
    /\ AvailableModuleOptions = ModuleOptions["shell"]
    /\ helpers = {}
    /\ ccSent = {}
    /\ runTick = FALSE
    /\ runResult = ""
    /\ modPanic = FALSE

InitSshSpec == IdleOp /\ IdleReg /\ IdleFtp /\ InitSshMod /\ IdleSsh /\ IdleApi /\ IdleExt

SpecSsh == InitSshSpec /\ [][NextSsh]_vars

\* Requests arrive at the agent API while one file transfer stream is
\* registered.
NextApi ==
    \/ /\ apiReq = NoReq
       /\ \E api \in Apis, token \in ApiTokens, uuid \in AgentUUIDs \cup {"u9"},
             sig \in SigHeaders, fileExists \in BOOLEAN :
             apiDispatcher([api |-> api, token |-> token, uuid |-> uuid, sig |-> sig,
                            fileExists |-> fileExists])
    \/ apiDispatcherReturns

InitApiFtp ==
    /\ remoteFile = [a \in Tags |-> <<1>>]
    /\ lockFile = [p \in Paths |-> FALSE]
    /\ finalFile = [p \in Paths |-> NoFile]
    /\ tempFile = [p \in Paths |-> NoFile]
    /\ FTPStreams = [p \in Paths |-> [Token |-> Token("g1", SHA256Sum(<<1>>)), agent |-> "A"]]
    /\ ftpSent = {}
    /\ gpc = [c \in Calls |-> "idle"]
    /\ gcall = [c \in Calls |-> NoCall]
    /\ xfer = [p \in Paths |-> NoXfer]

InitApiSpec == IdleOp /\ IdleReg /\ InitApiFtp /\ IdleMod /\ IdleSsh /\ IdleApi /\ IdleExt

SpecApi == InitApiSpec /\ [][NextApi]_vars

\* Two GetFile calls for one path of agent A, and the transfers they start.
NextFtp ==
    \/ \E c \in Calls, p \in Paths, ok \in BOOLEAN : GetFileStart(c, p, "A", ok)
    \/ \E c \in Calls, allocOk \in BOOLEAN, sendOk \in BOOLEAN :
          GetFileAfterStat(c, allocOk, sendOk)
    \/ \E c \in Calls, found \in BOOLEAN : AgentStatReply(c, found)
    \/ \E c \in Calls : FTPTransferBegin(c)
    \/ \E p \in Paths : FTPTransferByte(p)
    \/ \E p \in Paths : FTPTransferDone(p)
    \/ \E p \in Paths : FTPTransferAbort(p)

InitFtpSpec == IdleOp /\ IdleReg /\ InitFtp /\ IdleMod /\ IdleSsh /\ IdleApi /\ IdleExt

SpecFtp == InitFtpSpec /\ [][NextFtp]_vars

\* Operators post send-command requests for agents A and B and a stranger; B's
\* message tunnel may be down, and agents are unregistered meanwhile.
NextSc ==
    \/ /\ scReq = NoOperation /\ scStatus = 0
       /\ \E operation \in Operations, writeOk \in BOOLEAN :
             handleSendCommand(operation, writeOk)
    \/ handleSendCommandReturns
    \/ /\ scStatus = 0
       /\ \E tag \in Tags : Unregister(tag)

InitScReg ==
    /\ \E conn \in {"conn", NilConn} :
          Targets = {Control(1, "A", 1, "conn"), Control(2, "B", 2, conn)}
    /\ agentSeq = 2
    /\ everUnregistered = FALSE
    /\ CmdResults = << >>
    /\ uuidSeq = 0
    /\ procPanic = FALSE
    /\ agentSaid = << >>

InitScSpec == IdleOp /\ InitScReg /\ IdleFtp /\ IdleMod /\ IdleSsh /\ IdleApi /\ IdleExt

SpecSc == InitScSpec /\ [][NextSc]_vars


\* The operator selects modules and sets options.
NextUse ==
    \/ \E modName \in ModuleHelpers \cup {"nomod", ""} : setActiveModule(modName)
    \/ \E opt \in OptNames, val \in OptVals : setOptValCmd(opt, val)

InitUseSpec == IdleOp /\ IdleReg /\ IdleFtp /\ IdleMod /\ IdleSsh /\ IdleApi /\ IdleExt

SpecUse == InitUseSpec /\ [][NextUse]_vars

\* One GetFile call at a time for a path of agent A whose file changes on
\* the agent, and the transfers the calls start.
NextSum ==
    \/ \E c \in Calls, p \in Paths, ok \in BOOLEAN :
          /\ \A d \in Calls : gpc[d] # "stat"
          /\ GetFileStart(c, p, "A", ok)
    \/ \E c \in Calls, allocOk \in BOOLEAN, sendOk \in BOOLEAN :
          GetFileAfterStat(c, allocOk, sendOk)
    \/ \E c \in Calls, found \in BOOLEAN : AgentStatReply(c, found)
    \/ \E c \in Calls : FTPTransferBegin(c)
    \/ \E p \in Paths : FTPTransferByte(p)
    \/ \E p \in Paths : FTPTransferDone(p)
    \/ \E p \in Paths : FTPTransferAbort(p)
    \/ \E p \in Paths : FTPTransferMismatch(p)
    \/ \E data \in Contents : RemoteFileChanges("A", data)

SpecSum == InitFtpSpec /\ [][NextSum]_vars

\* The operator opens a shell on agent A and fetches a file from it; then the
\* agent's connection closes.
NextTd ==
    \/ SetActiveAgent("A")
    \/ \E lport \in LPorts, sendOk \in BOOLEAN :
          SSHClient("s1", "bash", SSHDShellPort, "2222", lport, TRUE, sendOk)
    \/ \E m \in sshSent, works \in BOOLEAN : AgentSshdReply(m, works)
    \/ SSHClientResponse("s1")
    \/ SSHClientNoResponse("s1")
    \/ \E g \in pfGo, listenOk \in BOOLEAN : PortFwdGoroutine(g, listenOk)
    \/ SSHClientPortReady("s1")
    \/ SSHClientPortTimeout("s1")
    \/ \E p \in Paths, ok \in BOOLEAN : GetFileStart("g1", p, "A", ok)
    \/ \E allocOk \in BOOLEAN, sendOk \in BOOLEAN : GetFileAfterStat("g1", allocOk, sendOk)
    \/ \E found \in BOOLEAN : AgentStatReply("g1", found)
    \/ FTPTransferBegin("g1")
    \/ \E p \in Paths : FTPTransferByte(p)
    \/ \E p \in Paths : FTPTransferDone(p)
    \/ \E p \in Paths : FTPTransferAbort(p)
    \/ \E tag \in Tags : AgentConnCloses(tag)

InitTdSpec == IdleOp /\ IdleReg /\ InitFtp /\ InitSshMod /\ IdleSsh /\ IdleApi /\ IdleExt

\* the goroutines of a started shell call and a started transfer are
\* scheduled: the call takes its next step and the stream moves on
SpecTd ==
    /\ InitTdSpec /\ [][NextTd]_vars
    /\ WF_vars(SSHClientResponse("s1") \/ SSHClientNoResponse("s1"))
    /\ WF_vars(\E g \in pfGo, listenOk \in BOOLEAN : PortFwdGoroutine(g, listenOk))
    /\ WF_vars(SSHClientPortReady("s1") \/ SSHClientPortTimeout("s1"))
    /\ WF_vars(\E p \in Paths : FTPTransferByte(p))
    /\ WF_vars(\E p \in Paths : FTPTransferDone(p))

\* GetFile calls whose goroutine is scheduled: a call waiting in StatFile
\* goes on as soon as the result is in the table. Nothing obliges the agent
\* to answer.
SpecWait ==
    /\ InitFtpSpec /\ [][NextFtp]_vars
    /\ WF_vars(\E c \in Calls, allocOk \in BOOLEAN, sendOk \in BOOLEAN :
                  GetFileAfterStat(c, allocOk, sendOk))

\* The pollers wait for their answers while processAgentData stores results.
NextLock ==
    \/ \E p \in Pollers : PollBegin(p)
    \/ \E p \in Pollers : Poll(p)
    \/ \E p \in Pollers, lastPoll \in BOOLEAN : PollEnd(p, lastPoll)
    \/ \E p \in Pollers : ResultArrives(CmdIdOf[p])
    \/ \E p \in Pollers \cup {"processAgentData"} : MutexLock(p)
    \/ \E p \in Pollers \cup {"processAgentData"} : LockedAccess(p)
    \/ \E p \in Pollers \cup {"processAgentData"} : MutexUnlock(p)

InitLockSpec == IdleOp /\ IdleReg /\ IdleFtp /\ IdleMod /\ IdleSsh /\ IdleApi /\ IdleExt

SpecLock == InitLockSpec /\ [][NextLock]_vars

\* Commands are sent to agents A and B while agents register and unregister.
NextRlock ==
    \/ \E x \in Senders, tag \in Tags : Send2Agent(x, tag)
    \/ \E x \in Senders : Send2AgentEncode(x)
    \/ \E x \in Senders : Send2AgentReturn(x)
    \/ \E tag \in Tags : RegistryWrite(tag)

InitRlockSpec == IdleOp /\ InitReg /\ IdleFtp /\ IdleMod /\ IdleSsh /\ IdleApi /\ IdleExt

SpecRlock == InitRlockSpec /\ [][NextRlock]_vars

\* The client loop of KCPTunClient under each Config, its sessions and the
\* scavenger.
NextKcp ==
    \/ \E err \in BOOLEAN : MuxAccept(err)
    \/ \E dialOk \in BOOLEAN : MuxWaitConn(dialOk)
    \/ \E s \in 1..MaxSessions : MuxSessionCloses(s)
    \/ TimePasses
    \/ scavengerReceive
    \/ scavengerTick

InitKcpSpec ==
    IdleOp /\ IdleReg /\ IdleFtp /\ IdleMod /\ IdleSsh /\ IdleApi /\ IdleSc /\ IdleUse
    /\ IdleTd /\ IdleTun /\ IdleLock /\ IdleRlock /\ IdleLbl /\ IdleRelay /\ IdleCork /\ IdleNest /\ IdleShot /\ InitKcp(Configs)

SpecKcp == InitKcpSpec /\ [][NextKcp]_vars

\* The client loop with auto-expiry and the scavenger.  Weak fairness is on
\* the clock and on the two cases of the scavenger's select: the scavenger
\* goroutine never returns, its ticker fires every scavengePeriod seconds and
\* its channel is served whenever an item waits.
InitScavSpec ==
    IdleOp /\ IdleReg /\ IdleFtp /\ IdleMod /\ IdleSsh /\ IdleApi /\ IdleSc /\ IdleUse
    /\ IdleTd /\ IdleTun /\ IdleLock /\ IdleRlock /\ IdleLbl /\ IdleRelay /\ IdleCork /\ IdleNest /\ IdleShot
    /\ InitKcp({c \in Configs : c.AutoExpire > 0})

SpecScav ==
    /\ InitScavSpec
    /\ [][NextKcp]_vars
    /\ WF_vars(TimePasses)
    /\ WF_vars(scavengerReceive)
    /\ WF_vars(scavengerTick)

\* Agents register and leave, the operator labels and lists them, and the
\* labels are saved to agents.json and read back.
NextLbl ==
    \/ \E tag \in Tags : Register(tag)
    \/ \E tag \in Tags : Unregister(tag)
    \/ \E tag \in Tags, l \in Labels : LabelAgent(tag, l)
    \/ ListTargets
    \/ \E readErr \in BOOLEAN, writeErr \in BOOLEAN : labelAgents(readErr, writeErr)
    \/ \E tag \in Tags, readErr \in BOOLEAN : SetAgentLabel(tag, readErr)

InitLblSpec == IdleOp /\ InitReg /\ IdleFtp /\ IdleMod /\ IdleSsh /\ IdleApi /\ IdleExt

SpecLbl == InitLblSpec /\ [][NextLbl]_vars

\* Requests arrive at the agent API while the transfers of two files are
\* registered, each under its own token.
InitBindFtp ==
    /\ remoteFile = [a \in Tags |-> <<1>>]
    /\ lockFile = [p \in Paths |-> FALSE]
    /\ finalFile = [p \in Paths |-> NoFile]
    /\ tempFile = [p \in Paths |-> NoFile]
    /\ FTPStreams = [p \in {"/etc/hostname", "/etc/passwd"} |->
                        [Token |-> Token(IF p = "/etc/hostname" THEN "g1" ELSE "g2",
                                         SHA256Sum(<<1>>)),
                         agent |-> "A"]]
    /\ ftpSent = {}
    /\ gpc = [c \in Calls |-> "idle"]
    /\ gcall = [c \in Calls |-> NoCall]
    /\ xfer = [p \in Paths |-> NoXfer]

InitBindSpec == IdleOp /\ IdleReg /\ InitBindFtp /\ IdleMod /\ IdleSsh /\ IdleApi /\ IdleExt

SpecBind == InitBindSpec /\ [][NextApi]_vars

\* One call of relay.  Weak fairness is on what the runtime and the function
\* do themselves: a deadline passes, a read past its deadline returns, and
\* relay returns after wg.Wait(); what the peers send and take is not fair.
NextRelay ==
    \/ relay
    \/ \E d \in Copies, outcome \in {"data", "EOF", "io"} : CopyRead(d, outcome)
    \/ \E d \in Copies : ReadTimesOut(d)
    \/ \E d \in Copies, ok \in BOOLEAN : CopyWrite(d, ok)
    \/ \E conn \in {"left", "right"} : DeadlinePasses(conn)
    \/ relayReturns

InitRelaySpec ==
    IdleOp /\ IdleReg /\ IdleFtp /\ IdleMod /\ IdleSsh /\ IdleApi /\ IdleExt

SpecRelay ==
    /\ InitRelaySpec
    /\ [][NextRelay]_vars
    /\ \A d \in Copies : WF_vars(ReadTimesOut(d))
    /\ \A conn \in {"left", "right"} : WF_vars(DeadlinePasses(conn))
    /\ WF_vars(relayReturns)

\* One corked connection.  The timer started by the first Write fires.
NextCork ==
    \/ \E len \in 1..MaxWrite, ok \in BOOLEAN, short \in 0..1 : Write(len, ok, short)
    \/ \E ok \in BOOLEAN, short \in 0..1 : TimerFires(ok, short)

InitCorkSpec ==
    IdleOp /\ IdleReg /\ IdleFtp /\ IdleMod /\ IdleSsh /\ IdleApi /\ IdleExt

SpecCork ==
    /\ InitCorkSpec
    /\ [][NextCork]_vars
    /\ WF_vars(\E ok \in BOOLEAN, short \in 0..1 : TimerFires(ok, short))

\* Readers of the registry that nest their read locks, and a writer.
NextNest ==
    \/ \E f \in Nesters, api \in BOOLEAN, exists \in BOOLEAN : NestCall(f, api, exists)
    \/ \E f \in Nesters : NestRLock(f)
    \/ \E f \in Nesters : NestRUnlock(f)
    \/ TargetsLock
    \/ TargetsLocked
    \/ TargetsUnlock

InitNestSpec ==
    IdleOp /\ IdleReg /\ IdleFtp /\ IdleMod /\ IdleSsh /\ IdleApi /\ IdleExt

SpecNest == InitNestSpec /\ [][NextNest]_vars

\* the operator silence followed while two connections are up, in seconds
MaxReconnSilence == 3

\* Two operator connections, which may name the same session.
NextReconn ==
    \/ \E h \in Handlers, s \in Sessions : handleOperatorConn(h, s)
    \/ \E h \in Handlers : HandleTick(h)
    \/ \E h \in Handlers : HandleCtxDone(h)
    \/ \E h \in Handlers : CtxCancel(h)
    \/ \E h \in Handlers : OperatorHeartbeat(h)
    \/ Second(MaxReconnSilence)

SpecReconn == InitOpSpec /\ [][NextReconn]_vars

\* ProcessScreenshot fetches the screenshot of agent A through GetFile and
\* the file-transfer engine.
NextShot ==
    \/ \E out \in ShotOuts, isError \in BOOLEAN : ProcessScreenshot(out, isError)
    \/ \E ok \in BOOLEAN :
          /\ shot.pc = "getfile"
          /\ GetFileStart(CallOf(shot.tries), ShotPath, "A", ok)
    \/ \E c \in Calls, allocOk \in BOOLEAN, sendOk \in BOOLEAN :
          GetFileAfterStat(c, allocOk, sendOk)
    \/ \E c \in Calls, found \in BOOLEAN : AgentStatReply(c, found)
    \/ ShotGetFileReturns
    \/ ShotPoll
    \/ \E c \in Calls : FTPTransferBegin(c)
    \/ \E p \in Paths : FTPTransferByte(p)
    \/ \E p \in Paths : FTPTransferDone(p)
    \/ \E p \in Paths : FTPTransferAbort(p)

SpecShot == InitFtpSpec /\ [][NextShot]_vars

\* The operator gets the same path from agent A (call g1) and from agent B
\* (call g2).
NextTwo ==
    \/ \E p \in Paths, ok \in BOOLEAN : GetFileStart("g1", p, "A", ok)
    \/ \E p \in Paths, ok \in BOOLEAN : GetFileStart("g2", p, "B", ok)
    \/ \E c \in Calls, allocOk \in BOOLEAN, sendOk \in BOOLEAN :
          GetFileAfterStat(c, allocOk, sendOk)
    \/ \E c \in Calls, found \in BOOLEAN : AgentStatReply(c, found)
    \/ \E c \in Calls : FTPTransferBegin(c)
    \/ \E p \in Paths : FTPTransferByte(p)
    \/ \E p \in Paths : FTPTransferDone(p)
    \/ \E p \in Paths : FTPTransferAbort(p)

SpecTwo == InitFtpSpec /\ [][NextTwo]_vars

\* The tunnels.  Weak fairness is on the steps the functions take themselves:
\* looking at the context, taking a connection that waits, returning from
\* wg.Wait().  That a peer connects, that Accept fails, that a dial succeeds
\* and that the context is cancelled are up to the environment.
NextTun ==
    \/ \E listenOk \in BOOLEAN : KCPTunClient(listenOk)
    \/ KCPTunClientLoop
    \/ \E err \in BOOLEAN : KCPTunClientAccept(err)
    \/ \E dialOk \in BOOLEAN : waitConn(dialOk)
    \/ SessionCloses
    \/ \E nports \in 1..MaxPorts : \E failAt \in 0..nports : KCPTunServer(nports, failAt)
    \/ \E l \in ServerLoops : loopSelect(l)
    \/ \E l \in ServerLoops : \E err \in BOOLEAN : AcceptKCP(l, err)
    \/ KCPTunServerWait
    \/ \E f \in SsFuncs : \E listenOk \in BOOLEAN : ssListen(f, listenOk)
    \/ \E f \in SsFuncs : ssLoop(f)
    \/ \E f \in SsFuncs : \E err \in BOOLEAN : ssAccept(f, err)
    \/ \E l \in Listeners : Connect(l)
    \/ \E f \in TunFuncs : CancelCtx(f)

InitTunSpec ==
    IdleOp /\ IdleReg /\ IdleFtp /\ IdleMod /\ IdleSsh /\ IdleApi /\ IdleExt

SpecTun ==
    /\ InitTunSpec
    /\ [][NextTun]_vars
    /\ WF_vars(KCPTunClientLoop)
    /\ WF_vars(KCPTunClientAccept(FALSE))
    /\ \A l \in ServerLoops : WF_vars(loopSelect(l)) /\ WF_vars(AcceptKCP(l, FALSE))
    /\ WF_vars(KCPTunServerWait)
    /\ \A f \in SsFuncs : WF_vars(ssLoop(f)) /\ WF_vars(ssAccept(f, FALSE))

(***************************************************************************)
(*                               CLAIMS                                    *)
(***************************************************************************)

\* C1: an operator session that has sent no heartbeat for more than Timeout
\* seconds has been closed by its handler: the handler has returned, the
\* connection is closed and OPERATORS no longer holds the session.
C1_SilentOperatorClosed ==
    \A h \in Handlers :
        (hpc[h] # "idle" /\ sinceHb[h] > Timeout) =>
            /\ hpc[h] = "exited"
            /\ ~connOpen[h]
            /\ hsession[h] \notin DOMAIN OPERATORS

C3_ExactlyOneBeginsTransfer ==
    \A c1 \in Calls, c2 \in Calls :
        (/\ c1 # c2
         /\ gpc[c1] = "done" /\ gpc[c2] = "done"
         /\ gcall[c1].path = gcall[c2].path /\ gcall[c1].agent = gcall[c2].agent
         /\ c1 \in gcall[c2].during
         /\ {gcall[c1].result, gcall[c2].result}
               \subseteq {"transfer", "already being downloaded"})
        => {gcall[c1].result, gcall[c2].result}
               = {"transfer", "already being downloaded"}

\* C4: every get command GetFile sends carries as offset the size of the
\* temp file at that moment, and 0 if there is no temp file.
C4_OffsetIsTempSize ==
    [][\A m \in ftpSent' \ ftpSent :
          m.op = "get" =>
             m.offset = (IF tempFile[m.path].exists
                         THEN Len(tempFile[m.path].data) ELSE 0)]_vars

\* C4 witness: a transfer was interrupted with k bytes in the temp file,
\* 0 < k < S, and the restarted GetFile has sent its get command with offset k
C4_Witness ==
    \E c1 \in Calls, c2 \in Calls, m \in ftpSent :
        /\ gcall[c1].x = "aborted"
        /\ gpc[c2] = "done" /\ gcall[c2].result = "transfer" /\ gcall[c2].during = {}
        /\ m.op = "get" /\ m.token = gcall[c2].token
        /\ m.offset > 0 /\ m.offset < Len(remoteFile[m.to])
        /\ tempFile[m.path].exists /\ Len(tempFile[m.path].data) = m.offset

\* C5: a waiter reading the correlation table under the id of a result
\* envelope that a registered agent sent obtains exactly the text the agent
\* put in the envelope, whatever the text.
C5_WaiterObtainsText ==
    \A id \in DOMAIN agentSaid :
        agentSaid[id].from \in Tags =>
            id \in DOMAIN CmdResults /\ CmdResults[id] = agentSaid[id].text

C8_BroadcastPerAgentIds ==
    /\ [](\A m1 \in ccSent, m2 \in ccSent : m1.id = m2.id => m1 = m2)
    /\ [](\A m \in ccSent :
            (m.bcast /\ m.id \in DOMAIN agentSaid) =>
               /\ m.id \in DOMAIN CmdResults
               /\ agentSaid[m.id].from = m.to
               /\ Head(CmdResults[m.id]) = m.to
               /\ (\A i \in DOMAIN agentSaid[m.id].text :
                      agentSaid[m.id].text[i] # MagicString)
                  => CmdResults[m.id] = agentSaid[m.id].text)
    /\ [][(/\ "cmd_exec" \in helpers /\ "cmd_exec" \notin helpers'
           /\ ActiveAgent = NilTarget
           /\ "cmd_to_exec" \in DOMAIN AvailableModuleOptions)
          => \A t \in Targets :
                t.Conn # NilConn =>
                   \E m \in ccSent' \ ccSent :
                      /\ m.to = t.Tag /\ m.bcast
                      /\ m.cmd = AvailableModuleOptions["cmd_to_exec"]]_vars

\* C8 witness: one broadcast reached A and B with the same command text and
\* different ids, both answered, and both results are in the table
C8_Witness ==
    \E mA \in ccSent, mB \in ccSent :
        /\ mA.bcast /\ mB.bcast
        /\ mA.to = "A" /\ mB.to = "B"
        /\ mA.cmd = mB.cmd /\ mA.id # mB.id
        /\ mA.id \in DOMAIN CmdResults /\ mB.id \in DOMAIN CmdResults
        /\ CmdResults[mA.id] = <<"A">>
        /\ CmdResults[mB.id] = <<"B">>

\* C9: a call of ModuleRun with a module that needs a target while none is
\* active, with an active target that is not in the registry, or with a
\* module whose platform is neither generic nor the target's OS, logs an
\* error, starts no helper and changes no state.
C9_ModuleRunFailsCleanly ==
    [][(/\ runTick' # runTick
        /\ CurrentMod \in DOMAIN Modules
        /\ \/ ActiveAgent = NilTarget /\ ~Modules[CurrentMod].IsLocal
           \/ ActiveAgent # NilTarget /\ ~(\E t \in Targets : t.Ptr = ActiveAgent.Ptr)
           \/ /\ ActiveAgent # NilTarget
              /\ ToLower(Modules[CurrentMod].Platform) \notin {"generic", ActiveAgent.OS})
       => /\ runResult' # ""
          /\ helpers' = helpers
          /\ UNCHANGED <<ActiveAgent, CurrentMod, AvailableModuleOptions, ccSent, modPanic>>
          /\ UNCHANGED <<regVars, ftpVars, opVars>>]_vars

\* C9 witness: ModuleRun has just refused to run a module on a selected
\* target that is no longer in the registry, and no helper is pending
C9_Witness ==
    /\ runResult = "does not exist"
    /\ ActiveAgent # NilTarget
    /\ ~(\E t \in Targets : t.Ptr = ActiveAgent.Ptr)
    /\ CurrentMod \in ModuleHelpers
    /\ helpers = {}

\* C7: when SSHClient is called again, after a first call that succeeded,
\* for the same agent with the same shell and port, then across both calls
\* exactly one sshd request was sent and exactly one port-forward session
\* was created: the second call sent none and created none.
C7_SecondCallReuses ==
    \A c1 \in SshCalls, c2 \in SshCalls :
        (/\ c1 # c2
         /\ spc[c1] = "done" /\ spc[c2] = "done"
         /\ c1 \in scall[c2].after
         /\ scall[c1].result = "ok"
         /\ scall[c2].agent.Ptr = scall[c1].agent.Ptr
         /\ scall[c2].shell = scall[c1].shell
         /\ scall[c2].origPort = scall[c1].origPort)
        => /\ Cardinality({m \in sshSent : m.call \in {c1, c2}}) = 1
           /\ scall[c1].pfMade /\ ~scall[c2].pfMade
           /\ Cardinality({p \in PortFwds : p.call \in {c1, c2}}) = 1
           /\ pfGo = {}

\* C7 witness: bash was opened twice on the reserved port for one agent, both
\* calls succeeded, one sshd request went out and one session runs
C7_Witness ==
    /\ spc["s1"] = "done" /\ spc["s2"] = "done"
    /\ "s1" \in scall["s2"].after
    /\ scall["s1"].result = "ok" /\ scall["s2"].result = "ok"
    /\ scall["s1"].agent.Tag = "A" /\ scall["s2"].agent.Tag = "A"
    /\ scall["s1"].shell = "bash" /\ scall["s2"].shell = "bash"
    /\ scall["s1"].origPort = SSHDShellPort /\ scall["s2"].origPort = SSHDShellPort
    /\ scall["s2"].lport = scall["s1"].lport
    /\ Cardinality(sshSent) = 1
    /\ Cardinality(PortFwds) = 1

\* C10: a request whose AgentUUIDSig is no valid base64url, or decodes to
\* something other than the CA's signature of the presented AgentUUID, is
\* answered 400 and passed to no handler.
C10_BadSignatureRefused ==
    (/\ apiReq # NoReq
     /\ \/ DecodeString(apiReq.sig).err
        \/ apiReq.uuid \notin AgentUUIDs
        \/ DecodeString(apiReq.sig).bytes # CASig[apiReq.uuid])
    => apiStatus = 400 /\ apiHandler = "none"

\* C10 witness: a check-in request with a token and a well-formed signature
\* header that is another agent's signature has been answered 400
C10_Witness ==
    /\ apiReq.api = "checkin"
    /\ apiReq.token # NoToken
    /\ apiReq.uuid = "u1"
    /\ ~DecodeString(apiReq.sig).err
    /\ DecodeString(apiReq.sig).bytes = CASig["u2"]
    /\ apiStatus = 400
    /\ apiHandler = "none"

\* C11: handleSendCommand answers 404 and sends nothing for an unknown agent
\* tag; for a known tag it answers 400 and sends nothing when command or
\* command_id is missing; it answers 500 when the send to the agent fails;
\* and it answers 200 only when the command went out on the tunnel of the
\* agent with that tag under the given command_id.
C11_SendCommandStatus ==
    [][(scReq = NoOperation /\ scReq' # NoOperation) =>
         LET operation == scReq'
             known == \E t \in Targets : t.Tag = operation.AgentTag
             missing == \/ ~operation.Command.set \/ operation.Command.val = << >>
                        \/ ~operation.CommandID.set \/ operation.CommandID.val = << >>
             new == ccSent' \ ccSent
             dispatched == [to |-> operation.AgentTag, cmd |-> operation.Command.val,
                            id |-> operation.CommandID.val, ok |-> TRUE, bcast |-> FALSE]
         IN /\ ~known => scStatus' = 404 /\ new = {}
            /\ (known /\ missing) => scStatus' = 400 /\ new = {}
            /\ (known /\ ~missing /\ dispatched \notin ccSent') => scStatus' = 500
            /\ scStatus' = 200 => (known /\ ~missing /\ dispatched \in ccSent')
            /\ scStatus' \in {200, 400, 404, 500}
            /\ \A m \in new : m.to = operation.AgentTag]_vars

\* C11 witness: the four answers have been given: 200 for a dispatched
\* command is on record while an earlier request for a connected agent whose
\* write failed left its mark
C11_Witness ==
    /\ scStatus = 200
    /\ scReq.AgentTag = "A"
    /\ scReq.CommandID = StringPtr(<<"c1">>)
    /\ [to |-> "A", cmd |-> scReq.Command.val, id |-> <<"c1">>, ok |-> TRUE,
        bcast |-> FALSE] \in ccSent
    /\ \E m \in ccSent : ~m.ok

C14_ChildrenTornDown ==
    \A tag \in Tags :
        [](tag \in ctxCancelled =>
             <>(/\ \A p \in PortFwds : p.Agent.Tag # tag
                /\ \A sh \in DOMAIN SSHShellPort : SSHShellPort[sh].Agent.Tag # tag
                /\ \A p \in Paths : ~(xfer[p].active /\ xfer[p].agent = tag)))

C16_MappingPerAgentAndShell ==
    \A c1 \in SshCalls, c2 \in SshCalls :
        (/\ c1 # c2
         /\ spc[c1] = "done" /\ spc[c2] = "done"
         /\ c1 \in scall[c2].after
         /\ scall[c1].result = "ok" /\ scall[c2].result = "ok"
         /\ scall[c1].shell = scall[c2].shell
         /\ scall[c1].agent.Ptr # scall[c2].agent.Ptr
         /\ pfGo = {})
        => /\ MappingOf(scall[c1].shell, scall[c1].agent)
                 = [found |-> TRUE, ToPort |-> scall[c1].port]
           /\ MappingOf(scall[c2].shell, scall[c2].agent)
                 = [found |-> TRUE, ToPort |-> scall[c2].port]

\* C17: no two commands that went out to agents and are outstanding share
\* one command id, whether the id was supplied by an operator through
\* send-command or drawn for a dispatch that passed an empty id.
C17_LiveCommandIdsUnique ==
    \A m1 \in ccSent, m2 \in ccSent :
        (/\ m1.ok /\ m2.ok
         /\ m1.id \notin DOMAIN CmdResults
         /\ m1.id = m2.id)
        => m1 = m2

\* C18: once a call of SSHClient that drew a command id and waited for the
\* result has returned, the correlation table holds no entry under that id,
\* whether the result came in time, the wait timed out, or the result came
\* after the timeout.
C18_NoEntryAfterReturn ==
    \A c \in SshCalls :
        (spc[c] = "done" /\ scall[c].cmd_id # << >>) =>
            scall[c].cmd_id \notin DOMAIN CmdResults

\* C19: a wait for a command result is bounded: a GetFile call that waits in
\* StatFile for the agent's answer eventually returns, with the answer or
\* with a timeout error, even if the agent never answers.
C19_StatWaitEnds ==
    \A c \in Calls : [](gpc[c] = "stat" => <>(gpc[c] = "done"))

\* C20: after the context passed to KCPTunClient, KCPTunServer, tcpLocal or
\* tcpRemote is cancelled, the function that was started eventually returns,
\* whether or not another connection arrives on its listener.
C20_LoopsHonorContext ==
    \A f \in TunFuncs : (tctx[f] /\ tpc[f] # "new") ~> (tpc[f] = "returned")

\* a payload the envelope format rules out: from an unknown agent, with an op
\* other than cmd, or with fewer than three fields after the op
Malformed(tag, payload) ==
    \/ GetTargetFromTag(tag) = NilTarget
    \/ Split(payload)[1] # <<"cmd">>
    \/ Len(Split(payload)) < 4

\* C21: processAgentData drops a malformed payload: it returns normally (no
\* run-time panic) and leaves CmdResults as it was.
C21_MalformedDropped ==
    [][\A tag \in Tags \cup Strangers, payload \in RawPayloads :
          (Malformed(tag, payload) /\ AgentRaw(tag, payload))
              => (~procPanic' /\ CmdResults' = CmdResults)]_vars

\* C22: the `set` command with an option name the current options do not
\* hold returns normally (no run-time panic) and changes no option value;
\* with a name they hold it changes that option's value and no other.
C22_SetOptionIsSafe ==
    [][\A opt \in OptNames, val \in OptVals :
          (opt # "" /\ val # << >> /\ setOptValCmd(opt, val)) =>
             /\ modPanic' = modPanic
             /\ DOMAIN AvailableModuleOptions' = DOMAIN AvailableModuleOptions
             /\ \A k \in DOMAIN AvailableModuleOptions :
                   AvailableModuleOptions'[k] =
                       IF k = opt THEN val ELSE AvailableModuleOptions[k]]_vars

\* C23: whoever reads or writes CmdResults holds CmdResultsMutex while it
\* does, so no poller reads the map while another function is between Lock()
\* and Unlock().
C23_AccessUnderLock ==
    \A p \in Pollers \cup {"processAgentData"} :
        mpc[p] \in {"read", "locked"} => CmdResultsMutex = p

\* C24: no call of Send2Agent holds the registry lock while it writes to the
\* agent's connection.
C24_NoLockAcrossSend ==
    \A x \in Senders : xpc[x] = "encode" => x \notin TargetsRLock

\* the port carries another shell of the agent: the mapping of another shell
\* names it for this agent
Carries(target, port, shell) ==
    \E s \in DOMAIN SSHShellPort :
        /\ s # shell
        /\ SSHShellPort[s].Agent.Ptr = target.Ptr
        /\ SSHShellPort[s].ToPort = port

\* C25: a call of SSHClient for a shell on a port that carries another shell
\* of the active agent does not use that port: it starts over with a newly
\* chosen port (or asks for sshd on a new port at once), it leaves the
\* mappings and the port-forward sessions as they are, and no sshd request
\* names a port that carries another shell of the agent.
C25_RebindsOnForeignShell ==
    /\ [][\A c \in SshCalls, shell \in Shells, port \in Ports, new_port \in Ports,
             lport \in LPorts :
             (/\ ActiveAgent # NilTarget
              /\ Send2AgentConnected(ActiveAgent.Tag)
              /\ ~MappingOf(shell, ActiveAgent).found
              /\ Carries(ActiveAgent, port, shell)
              /\ SSHClient(c, shell, port, new_port, lport, TRUE, TRUE))
             => /\ spc'[c] \in {"start", "wait"}
                /\ spc'[c] = "wait" => scall'[c].port # port
                /\ SSHShellPort' = SSHShellPort
                /\ PortFwds' = PortFwds]_vars
    /\ [][\A m \in sshSent' \ sshSent :
             ~Carries(GetTargetFromTag(m.to), m.port, m.shell)]_vars

\* the agent has answered the sshd request of call c with success, or with
\* "address already in use" for the port of the call
AnsweredOk(c) ==
    LET id == scall[c].cmd_id IN
    /\ id \in DOMAIN agentSaid
    /\ agentSaid[id].from = scall[c].agent.Tag
    /\ \/ agentSaid[id].text = <<"success">>
       \/ agentSaid[id].text =
             <<"listen tcp 127.0.0.1:", scall[c].port, ": bind: address already in use">>

\* the errors SSHClient returns for a bad answer and for no answer
SshdErrors == {"start sshd failed", "didn't get response"}

\* C26: SSHClient creates a port-forward session, and its goroutine records
\* the shell mapping and runs the session, only for a call whose sshd request
\* the agent answered with success or with "address already in use" for the
\* port; a call that waits for the answer and gets another text, or none
\* within the polling limit, returns an error, and no port-forward session,
\* mapping or ssh client comes of it.
C26_PortFwdOnlyAfterAnswer ==
    /\ [][\A c \in SshCalls :
             (scall'[c].pfMade /\ ~scall[c].pfMade) => AnsweredOk(c)]_vars
    /\ [][\A g \in pfGo' \ pfGo : AnsweredOk(g.call)]_vars
    /\ [][(SSHShellPort' # SSHShellPort \/ PortFwds' # PortFwds) =>
             \E g \in pfGo :
                 /\ AnsweredOk(g.call)
                 /\ pfGo' = pfGo \ {g}
                 /\ SSHShellPort' = MapPut(SSHShellPort, g.shell,
                                           [Agent |-> g.agent, ToPort |-> g.port])
                 /\ PortFwds' \ PortFwds \subseteq
                       {[Agent |-> g.agent, To |-> g.port, Lport |-> g.lport,
                         call |-> g.call, CtxParent |-> Background]}]_vars
    /\ [][\A c \in SshCalls :
             (spc[c] = "wait" /\ spc'[c] # "wait" /\ ~AnsweredOk(c)) =>
                 /\ spc'[c] = "done"
                 /\ scall'[c].result \in SshdErrors
                 /\ ~scall'[c].pfMade
                 /\ pfGo' = pfGo
                 /\ PortFwds' = PortFwds
                 /\ SSHShellPort' = SSHShellPort]_vars
    /\ [](\A c \in SshCalls :
             (spc[c] = "done" /\ scall[c].result \in SshdErrors) =>
                 /\ ~(\E g \in pfGo : g.call = c)
                 /\ ~(\E p \in PortFwds : p.call = c))

\* one call got its session after the agent's answer, another was refused
C26_Witness ==
    \E c, d \in SshCalls :
        /\ scall[c].pfMade /\ AnsweredOk(c)
        /\ \E p \in PortFwds : p.call = c
        /\ spc[c] = "done" /\ scall[c].result = "ok"
        /\ scall[d].result = "start sshd failed"
        /\ scall[d].cmd_id \in DOMAIN agentSaid

\* the session of slot k is unset, closed, or (with auto-expiry) older than
\* AutoExpire seconds
Stale(k) ==
    \/ muxes[k].session = NilSession
    \/ smux[muxes[k].session].closed
    \/ (config.AutoExpire > 0 /\ now > muxes[k].expiryDate)

\* a slot gets another session exactly when the connection it is about to
\* carry finds its session unset, closed or expired; without auto-expiry an
\* open session stays
ReplacedWhenStale ==
    /\ [][\A k \in DOMAIN muxes :
             muxes'[k] # muxes[k] =>
                 /\ Stale(k)
                 /\ accepted' = accepted + 1
                 /\ carried'.slot = k
                 /\ muxes'[k].session \notin DOMAIN smux \cup {NilSession}]_vars
    /\ [][accepted' = accepted + 1 =>
             (Stale(carried'.slot) <=>
                 muxes'[carried'.slot].session # muxes[carried'.slot].session)]_vars
    /\ [][\A k \in DOMAIN muxes :
             (/\ config.AutoExpire = 0
              /\ muxes[k].session # NilSession
              /\ ~smux[muxes[k].session].closed)
             => muxes'[k] = muxes[k]]_vars

Tracked(s) ==
    \/ \E k \in DOMAIN chScavenger : chScavenger[k].session = s
    \/ \E k \in DOMAIN sessionList : sessionList[k].session = s

\* C28: with auto-expiry, a session replaced because it expired is in the
\* hands of the scavenger when it is replaced, and it is eventually closed.
C28_ExpiredIsScavenged ==
    /\ [][\A s \in expiredOut' \ expiredOut :
             \/ \E k \in DOMAIN chScavenger' : chScavenger'[k].session = s
             \/ \E k \in DOMAIN sessionList' : sessionList'[k].session = s]_vars
    /\ \A s \in 1..MaxSessions :
          (s \in expiredOut) ~> (s \in DOMAIN smux /\ smux[s].closed)

\* a session replaced because it expired has been closed by the scavenger
C28_Witness ==
    \E s \in expiredOut : smux[s].closed /\ smux[s].by = "scavenger"

\* C29: the scavenger closes a session only when it tracks it and the
\* session's expiry date plus ScavengeTTL seconds has passed; a tick leaves
\* in the list exactly the sessions that are open after it, in their order.
C29_ScavengerClosesAfterTTL ==
    /\ [][\A s \in DOMAIN smux :
             (smux'[s].by = "scavenger" /\ smux[s].by # "scavenger") =>
                 /\ ~smux[s].closed
                 /\ now > smux[s].expiryDate + config.ScavengeTTL
                 /\ \E k \in DOMAIN sessionList : sessionList[k].session = s]_vars
    /\ [][scavengerTick =>
             LET open(e) == ~smux'[e.session].closed
             IN sessionList' = SelectSeq(sessionList, open)]_vars

\* the scavenger has closed one session and still tracks an open one
C29_Witness ==
    /\ \E s \in DOMAIN smux : smux[s].by = "scavenger"
    /\ \E k \in DOMAIN sessionList : ~smux[sessionList[k].session].closed

\* C30: labels round-trip through agents.json keyed by tag: once labelAgents
\* has saved, SetAgentLabel returns for a labelled connected agent the label
\* it has, and for any tag the label of the tag's record; a save keeps the
\* records of the tags that are not connected; and the file never holds two
\* records with the same tag.
C30_LabelsRoundTrip ==
    /\ [][\A readErr \in BOOLEAN :
             (labelAgents(readErr, FALSE) /\ \E c \in Targets : c.Label # "") =>
                 /\ agentsJsonExists'
                 /\ \A c \in Targets :
                       c.Label # "" =>
                          \E i \in DOMAIN agentsJson' :
                              agentsJson'[i] = [Tag |-> c.Tag, Label |-> c.Label]]_vars
    /\ [][\A tag \in Tags :
             (agentsJsonExists /\ SetAgentLabel(tag, FALSE)) =>
                 /\ label'.Tag = tag
                 /\ \A i \in DOMAIN agentsJson :
                       agentsJson[i].Tag = tag => label'.Label = agentsJson[i].Label]_vars
    /\ [][\A i \in DOMAIN agentsJson :
             (agentsJsonExists /\ ~(\E c \in Targets : c.Tag = agentsJson[i].Tag)) =>
                 /\ agentsJsonExists'
                 /\ \E j \in DOMAIN agentsJson' : agentsJson'[j] = agentsJson[i]]_vars
    /\ [](\A i, j \in DOMAIN agentsJson :
             agentsJson[i].Tag = agentsJson[j].Tag => i = j)

\* C31: a call of GetFile for a target whose lock file exists fails with the
\* already-in-progress error and does nothing else: it sends no stat or get
\* command, registers no stream handle, draws no command id, and leaves the
\* final, temp and lock files and the running transfer as they are.
C31_LockedGetFileHasNoEffect ==
    [][\A c \in Calls, p \in Paths, a \in Tags, sendOk \in BOOLEAN :
          (lockFile[p] /\ GetFileStart(c, p, a, sendOk)) =>
              /\ gpc'[c] = "done"
              /\ gcall'[c].result = "already being downloaded"
              /\ gcall'[c].x = "none"
              /\ ftpSent' = ftpSent
              /\ FTPStreams' = FTPStreams
              /\ finalFile' = finalFile
              /\ tempFile' = tempFile
              /\ lockFile' = lockFile
              /\ xfer' = xfer
              /\ CmdResults' = CmdResults
              /\ uuidSeq' = uuidSeq]_vars

\* a call was refused while the transfer of an earlier call held the lock
C31_Witness ==
    \E c, d \in Calls :
        /\ gcall[c].result = "already being downloaded"
        /\ gcall[d].x \in {"streaming", "complete", "aborted"}
        /\ ftpSent # {}

\* C32: a file-transfer request that apiDispatcher hands to handleFTPTransfer
\* goes with the stream handle whose token is the token of the request; a
\* request with a good signature and the token of a registered handle is
\* handed over; a request whose token is the token of no handle is answered
\* 400 and handed to nothing; and the dispatcher changes no transfer.
C32_RequestBoundByToken ==
    /\ [](apiReq # NoReq /\ apiReq.api = "ftp" =>
             /\ apiHandler \in {"handleFTPTransfer", "none"}
             /\ apiHandler = "handleFTPTransfer" =>
                   /\ apiStatus = 200
                   /\ apiSh \in DOMAIN FTPStreams
                   /\ FTPStreams[apiSh].Token = apiReq.token
             /\ apiHandler = "none" => apiStatus = 400 /\ apiSh = ""
             /\ (/\ VerifySignatureWithCA(apiReq.uuid, DecodeString(apiReq.sig).bytes)
                 /\ ~DecodeString(apiReq.sig).err
                 /\ \E f \in DOMAIN FTPStreams : FTPStreams[f].Token = apiReq.token)
                => apiHandler = "handleFTPTransfer"
             /\ ~(\E f \in DOMAIN FTPStreams : FTPStreams[f].Token = apiReq.token)
                => apiHandler = "none")
    /\ [][apiReq' # apiReq => UNCHANGED ftpVars]_vars

\* a request with the token of the second transfer is with that transfer's
\* handle, not with the first
C32_Witness ==
    /\ apiReq.api = "ftp"
    /\ apiHandler = "handleFTPTransfer"
    /\ apiSh = "/etc/passwd"
    /\ FTPStreams["/etc/hostname"].Token # apiReq.token

\* C33: relay returns only after both copies are over; once one copy is over
\* (EOF or an error) relay eventually returns, the other copy being
\* unblocked by the read deadline; and an error that is only the deadline's
\* is not returned.
C33_RelayTerminates ==
    /\ [](relayRet \notin {"none", "running"} => \A d \in Copies : rpc[d] = "done")
    /\ [](relayRet = "deadline" => FALSE)
    /\ (\E d \in Copies : rpc[d] = "done") ~> (relayRet \notin {"none", "running"})

\* C34: what the underlying connection has taken is a prefix of the bytes
\* Write accepted (each once, in the order written); as long as no write to
\* the connection has failed, the accepted bytes are those taken followed by
\* those still buffered, they are all taken once the connection is uncorked,
\* and the timer brings that about; and once the writer has failed, a Write
\* returns the error with n = 0 and neither the connection nor the buffer
\* takes a byte.
C34_AcceptedBytesReachConnOnce ==
    /\ [](/\ Len(connOut) <= Len(wrote)
          /\ \A i \in 1..Len(connOut) : connOut[i] = wrote[i])
    /\ [](~corkHist.failed => connOut \o cork.buf = wrote)
    /\ [](~corkHist.failed /\ ~cork.corked => connOut = wrote)
    /\ (wrote # <<>>) ~> (corkHist.failed \/ connOut = wrote)
    /\ [][\A len \in 1..MaxWrite, ok \in BOOLEAN, short \in 0..1 :
            ((cork.err # "nil" \/ cork.berr # "nil") /\ Write(len, ok, short))
            => /\ wret'.n = 0
               /\ wret'.err = "io"
               /\ connOut' = connOut
               /\ wrote' = wrote
               /\ cork'.buf = cork.buf]_vars

\* bytes were flushed from the buffer, the connection is uncorked, and a
\* later Write has passed more bytes to the connection
C34_Witness ==
    /\ ~corkHist.failed
    /\ ~cork.corked
    /\ corkHist.flushed > 0
    /\ Len(connOut) > corkHist.flushed
    /\ connOut = wrote

\* C35: no call that holds the read lock of the registry waits for it
\* again behind a writer that waits for the call's own read lock (the
\* deadlock of a nested read lock).
C35_NoNestedReadLockDeadlock ==
    ~(/\ wlock = "waiting"
      /\ \E f \in Nesters : 0 < rdepth[f] /\ rdepth[f] < rgoal[f])

\* C36: while the handler of an operator connection runs with its
\* connection open, OPERATORS has an entry for the connection's session.
C36_LiveSessionIsListed ==
    \A h \in Handlers :
        (hpc[h] = "loop" /\ connOpen[h]) => hsession[h] \in DOMAIN OPERATORS

\* C37: a request that apiDispatcher answers with 400 and passes to no
\* handler leaves the H2Conn holder of the shared reverse-shell and proxy
\* stream handles as it was.
C37_RejectedRequestKeepsStreams ==
    [][(apiReq = NoReq /\ apiReq' # NoReq /\ apiStatus' = 400 /\ apiHandler' = "none")
        => streamsH2x' = streamsH2x]_vars

\* C38: ProcessScreenshot leaves its wait loop for what follows it only
\* when a transfer of the screenshot has completed, and it does not call
\* itself again once a transfer has completed.
C38_LeavesLoopOnCompletedTransfer ==
    /\ [][(shot.pc = "wait" /\ shot'.pc = "done")
            => \E c \in Calls : gcall[c].x = "complete"]_vars
    /\ [][(shot.pc = "wait" /\ shot'.pc = "getfile")
            => ~\E c \in Calls : gcall[c].x = "complete"]_vars

\* C39: while a GetFile of agent A for a path is in progress (its get
\* command sent, its transfer not over), the stream handle registered for
\* the path is A's, and a GetFile of agent B for the path changes neither
\* the final file nor the temp file nor the lock file.
C39_AgentsGetIndependently ==
    /\ [](\A c \in Calls :
            gcall[c].x \in {"requested", "streaming"}
            => /\ gcall[c].path \in DOMAIN FTPStreams
               /\ FTPStreams[gcall[c].path].agent = gcall[c].agent)
    /\ [][\A c, d \in Calls :
            (/\ gcall[c].x \in {"requested", "streaming"}
             /\ gcall[d].agent # gcall[c].agent
             /\ gcall[d].path = gcall[c].path
             /\ gpc[d] = "stat" /\ gpc'[d] = "done")
            => /\ finalFile' = finalFile
               /\ tempFile' = tempFile
               /\ lockFile' = lockFile]_vars

\* C40: every stream handle in FTPStreams belongs to a transfer whose get
\* command was sent to the agent, and a call of GetFile that ended with an
\* error has left no handle of its own in FTPStreams.
C40_HandlesOnlyOfSentGets ==
    \A p \in DOMAIN FTPStreams :
        \E m \in ftpSent : m.op = "get" /\ m.path = p /\ m.token = FTPStreams[p].Token

====
